---- MODULE Spec2Model ----
(***************************************************************************)
(* A state-machine model of orbit-server: the identity app (ghost          *)
(* profiles, OTP verification, ghost-data migration), the workspace app    *)
(* (boards, notes, upvotes, invites, access requests), the                 *)
(* IsOwnerOrAdminToken permission, the querysets that scope every detail   *)
(* route, the signal receivers that broadcast to a board's group and the   *)
(* purge_expired_data command.                                             *)
(*                                                                         *)
(* The database is the shared state.  A request handler that issues more   *)
(* than one statement against it runs as a sequence of steps held in a     *)
(* request slot (inflight); nothing in the views opens a transaction, so   *)
(* every statement commits on its own and steps of different requests      *)
(* interleave.  Only the INSERT of get_or_create and Model.delete run in   *)
(* an atomic block of Django's own, together with the receivers of their   *)
(* signals: each of these is one step.                                     *)
(***************************************************************************)
EXTENDS Integers, Sequences, FiniteSets, Bags, TLC

\* ---------------------------------------------------------------- universes
Emails == {"a", "b"}
GhostIds == {"g1", "g2", "g3"}
BoardIds == {"b1"}
NoteIds == {"n1", "n2"}
Codes == {"c1", "c2"}
Slots == {"s1", "s2"}
TokenForms == {"canon", "upper", "hex"}

NoUser == "anonymous"
NoGhost == "noghost"
NoToken == [val |-> <<"none", 0>>, form |-> "none"]
NoResp == [op |-> "none"]
Idle == [pc |-> "idle"]

\* rows the VerificationCode table may hold
MaxCodes == 2
\* times one board's admin secret may be regenerated
MaxRevokes == 1
\* gravity steps one coordinate may take
MaxPulls == 2
\* days the clock may run
MaxClock == 40

VARIABLES
  users,      \* emails of the User rows
  profiles,   \* AnonymousProfile rows: ghost_id -> [user]
  vcodes,     \* VerificationCode rows in primary-key order
  boards,     \* Board rows: id -> record
  notes,      \* Note rows: id -> record
  upvotes,    \* Upvote rows: <<note, ghost>>
  invites,    \* BoardInvite rows: <<board, email>>
  inflight,   \* request slot -> the handler's position and locals
  accepted,   \* VerificationCode row -> verifications answered 200 with it
  resp,       \* the response returned by the step just taken, if any
  now,        \* timezone.now(), in days
  stamps,     \* the retention columns: created_at, is_soft_deleted and
              \* soft_deleted_at of each AnonymousProfile row, created_at and
              \* soft_deleted_at of each Board row
  access,     \* AccessRequest rows in primary-key order
  emitted     \* the bag of messages the step just taken sent to the
              \* channel layer

vars == <<users, profiles, vcodes, boards, notes, upvotes, invites,
          inflight, accepted, resp, now, stamps, access, emitted>>

\* ------------------------------------------------------------------ helpers
Put(f, k, v) == [x \in DOMAIN f \cup {k} |-> IF x = k THEN v ELSE f[x]]

Drop(f, k) == [x \in DOMAIN f \ {k} |-> f[x]]

\* uuid.uuid4(): an identifier no row holds yet
FreshIn(ids, used) == CHOOSE x \in ids \ used : TRUE

\* AnonymousProfile.objects.get_or_create(ghost_id=g)
GetOrCreateGhost(P, g) ==
  IF g \in DOMAIN P THEN P ELSE Put(P, g, [user |-> NoUser])

\* GhostIdentityMiddleware: the X-Ghost-ID header materialises a profile
Middleware(P, g) == IF g = NoGhost THEN P ELSE GetOrCreateGhost(P, g)

\* user.ghost_profile, the reverse side of AnonymousProfile.user
GhostProfileIn(P, e) ==
  IF e # NoUser /\ \E g \in DOMAIN P : P[g].user = e
  THEN CHOOSE g \in DOMAIN P : P[g].user = e
  ELSE NoGhost

GhostProfile(e) == GhostProfileIn(profiles, e)

\* a plain ForeignKey in place of the OneToOneField
UniqueUserDropped(P, g, e) == TRUE

\* The unique index behind OneToOneField(User): may the row g carry user e?
UniqueUserOk(P, g, e) ==
  \A h \in DOMAIN P \ {g} : P[h].user # e

\* Board.objects.filter(creator_ghost=g).exists() or Note...exists()
HasAnonymousData(g) ==
  \/ \E b \in DOMAIN boards : boards[b].creator_ghost = g
  \/ \E n \in DOMAIN notes : notes[n].creator_ghost = g

\* VerificationCode.objects.filter(email=e, code=c).first(): lowest pk, or 0
FirstRow(e, c) ==
  LET hits == {i \in 1..Len(vcodes) : vcodes[i].email = e /\ vcodes[i].code = c}
  IN IF hits = {} THEN 0 ELSE CHOOSE i \in hits : \A j \in hits : i <= j

\* VerificationCode.is_valid
IsValid(vc) == ~vc.is_used /\ ~vc.expired

Busy(s) == inflight[s].pc # "idle"

Finish(s) == inflight' = [inflight EXCEPT ![s] = Idle]

Goto(s, rec) == inflight' = [inflight EXCEPT ![s] = rec]

Respond(r) == resp' = r

\* soft_deleted_at = None
Never == -1

\* The retention columns after a request step that leaves profiles P and
\* boards B: a row it inserted has created_at = now (auto_now_add) and is not
\* soft-deleted, a board it soft-deleted has soft_deleted_at = now.
Stamped(P, B) ==
  [ghost |-> [g \in DOMAIN P |->
                IF g \in DOMAIN stamps.ghost THEN stamps.ghost[g]
                ELSE [created_at |-> now, is_soft_deleted |-> FALSE,
                      soft_deleted_at |-> Never]],
   board |-> [b \in DOMAIN B |->
                IF b \in DOMAIN stamps.board
                THEN IF B[b].is_soft_deleted /\ ~boards[b].is_soft_deleted
                     THEN [stamps.board[b] EXCEPT !.soft_deleted_at = now]
                     ELSE stamps.board[b]
                ELSE [created_at |-> now, soft_deleted_at |-> Never]]]

\* a request step takes no time
Stamp == now' = now /\ stamps' = Stamped(profiles', boards')

\* broadcast_update: the message and the group board_<board_id> it goes to
BroadcastUpdate(board_id, message_type, data) ==
  [group |-> board_id, type |-> message_type, data |-> data]

One(e) == SetToBag({e})

Times(e, k) == IF k = 0 THEN EmptyBag ELSE [x \in {e} |-> k]

\* a step that writes no AccessRequest row and sends the messages evs
Emit(evs) == Stamp /\ access' = access /\ emitted' = evs

\* ... and sends nothing: no receiver is connected to what it saves
Silent == Emit(EmptyBag)

\* NoteSerializer(note).data, as far as the model keeps a note
NoteData(n, note) ==
  [id |-> n, content |-> note.content,
   position_x |-> note.position_x, position_y |-> note.position_y]

\* note_saved (post_save of Note)
NoteSaved(n, note, created) ==
  BroadcastUpdate(note.board, IF created THEN "NOTE_CREATED" ELSE "NOTE_UPDATED",
                  NoteData(n, note))

\* note_deleted (post_delete of Note)
NoteDeleted(n, note) == BroadcastUpdate(note.board, "NOTE_DELETED", [id |-> n])


\* board_saved (post_save of Board)
BoardSaved(b, row, created) ==
  BroadcastUpdate(b, IF ~created /\ row.is_soft_deleted THEN "BOARD_DELETED"
                     ELSE IF created THEN "BOARD_CREATED" ELSE "BOARD_UPDATED",
                  [id |-> b])

\* board_invite_saved (post_save of BoardInvite) for a created row
BoardInviteSaved(b, email) == BroadcastUpdate(b, "ACCESS_GRANTED", [email |-> email])

\* access_request_saved (post_save of AccessRequest) for an updated row
\* whose status is REJECTED
AccessRequestSaved(row) ==
  BroadcastUpdate(row.board, "ACCESS_REJECTED",
                  [email |-> row.email, ghost_id |-> row.ghost])

\* ------------------------------------------------------- request and tokens
\* A request carries the X-Ghost-ID header, the JWT's user and X-Admin-Token.
Req(g, u, t) == [ghost |-> g, user |-> u, token |-> t]

\* str(board.secret_admin_token): each uuid4 is unique, here <<board, generation>>
TokenOf(b) == <<b, boards[b].secret_admin_token>>

\* str(token) == header
StrEq(tok, hdr) == hdr.val = tok /\ hdr.form = "canon"

\* str(token).lower() == str(header).lower()
LowerEq(tok, hdr) == hdr.val = tok /\ hdr.form \in {"canon", "upper"}

\* Q(secret_admin_token=header): UUIDField parses the header with uuid.UUID
UuidEq(tok, hdr) == hdr.val = tok

SafeMethods == {"GET", "HEAD", "OPTIONS"}

OwnerUser(b) == profiles[boards[b].creator_ghost].user

\* Board.is_claimed
IsClaimed(b) == OwnerUser(b) # NoUser

\* has_admin_rights of IsOwnerOrAdminToken.has_object_permission
HasAdminRights(req, b) ==
  \/ LowerEq(TokenOf(b), req.token)
  \/ (req.user # NoUser /\ OwnerUser(b) = req.user)

\* the author checks of has_object_permission (notes only)
IsNoteAuthor(req, author) ==
  \/ (req.ghost # NoGhost /\ author = req.ghost)
  \/ (req.user # NoUser /\ profiles[author].user = req.user)

\* an admin branch that returns True for every write
AdminNoteAllowedAny(method, fields) == TRUE

\* the admin branch for somebody else's note
AdminNoteAllowed(method, fields) ==
  method = "PATCH" /\ fields # {} /\ fields \subseteq {"position_x", "position_y"}

\* has_object_permission without its author checks
HasObjectPermissionAdminOnly(req, method, is_board, b, author, fields) ==
  \/ method \in SafeMethods
  \/ (HasAdminRights(req, b) /\ (is_board \/ AdminNoteAllowed(method, fields)))

\* IsOwnerOrAdminToken.has_object_permission; author is the note's
\* creator_ghost (unused for a board)
HasObjectPermission(req, method, is_board, b, author, fields) ==
  IF method \in SafeMethods THEN TRUE
  ELSE IF ~is_board /\ IsNoteAuthor(req, author) THEN TRUE
  ELSE IF HasAdminRights(req, b)
       THEN (IF is_board THEN TRUE ELSE AdminNoteAllowed(method, fields))
       ELSE FALSE

\* BoardViewSet.get_queryset
BoardQueryset(req) ==
  {b \in DOMAIN boards :
     \/ (boards[b].is_public /\ ~boards[b].is_soft_deleted)
     \/ (req.ghost # NoGhost /\ boards[b].creator_ghost = req.ghost)
     \/ (req.user # NoUser /\ (OwnerUser(b) = req.user \/ <<b, req.user>> \in invites))}

\* the access filter of NoteViewSet.get_queryset, for the note's board
NoteAccess(req, b) ==
  \/ boards[b].is_public
  \/ (req.ghost # NoGhost /\ boards[b].creator_ghost = req.ghost)
  \/ (req.user # NoUser /\ (OwnerUser(b) = req.user \/ <<b, req.user>> \in invites))
  \/ (req.token # NoToken /\ UuidEq(TokenOf(b), req.token))

\* NoteViewSet.get_queryset
NoteQueryset(req) ==
  {n \in DOMAIN notes :
     ~boards[notes[n].board].is_soft_deleted /\ NoteAccess(req, notes[n].board)}

\* ------------------------------------- GhostIdentityMiddleware, by statement
\* what the middleware leaves in request.ghost for the header g, and the
\* statement of get_or_create that produced it
BootResp(g, ctx, via) == [op |-> "boot", ghost |-> g, context |-> ctx, via |-> via]

\* get_or_create(ghost_id=g): self.get()
BootGet(s, g) ==
  /\ ~Busy(s)
  /\ IF g \in DOMAIN profiles
     THEN inflight' = inflight /\ Respond(BootResp(g, g, "get"))
     ELSE Goto(s, [pc |-> "boot_create", ghost |-> g]) /\ Respond(NoResp)
  /\ UNCHANGED <<users, profiles, vcodes, boards, notes, upvotes, invites, accepted>>
  /\ Silent

\* get_or_create: create(); the INSERT meets the primary key of ghost_id
BootCreate(s) ==
  /\ inflight[s].pc = "boot_create"
  /\ LET g == inflight[s].ghost
     IN IF g \in DOMAIN profiles
        THEN /\ Goto(s, [inflight[s] EXCEPT !.pc = "boot_reget"])   \* IntegrityError
             /\ profiles' = profiles
             /\ Respond(NoResp)
        ELSE /\ profiles' = Put(profiles, g, [user |-> NoUser])
             /\ Finish(s)
             /\ Respond(BootResp(g, g, "create"))
  /\ UNCHANGED <<users, vcodes, boards, notes, upvotes, invites, accepted>>
  /\ Silent

\* a get_or_create that lets the IntegrityError through to `except Exception`
RegetNever(P, g) == NoGhost

\* get_or_create after the IntegrityError: the second self.get(); when it
\* misses, the error reaches `except Exception: pass` and request.ghost
\* stays None
Reget(P, g) == IF g \in DOMAIN P THEN g ELSE NoGhost

BootReget(s) ==
  /\ inflight[s].pc = "boot_reget"
  /\ Finish(s)
  /\ Respond(BootResp(inflight[s].ghost, Reget(profiles, inflight[s].ghost), "reget"))
  /\ UNCHANGED <<users, profiles, vcodes, boards, notes, upvotes, invites, accepted>>
  /\ Silent

BootSteps(s) == BootCreate(s) \/ BootReget(s)

\* ----------------------------------------------------------- identity views
\* GenerateGhostIDView.post
GenerateGhost ==
  /\ GhostIds \ DOMAIN profiles # {}
  /\ profiles' = Put(profiles, FreshIn(GhostIds, DOMAIN profiles), [user |-> NoUser])
  /\ Respond([op |-> "generate", status |-> 200])
  /\ UNCHANGED <<users, vcodes, boards, notes, upvotes, invites, inflight, accepted>>
  /\ Silent

\* The clock passes expires_at of the oldest unexpired code (ten minutes
\* after its creation, so codes expire in primary-key order).
ExpireCode ==
  /\ \E i \in 1..Len(vcodes) :
       /\ ~vcodes[i].expired
       /\ \A j \in 1..(i - 1) : vcodes[j].expired
       /\ vcodes' = [vcodes EXCEPT ![i].expired = TRUE]
  /\ Respond(NoResp)
  /\ UNCHANGED <<users, profiles, boards, notes, upvotes, invites, inflight, accepted>>
  /\ Silent

\* SendOTPView.post up to the branch on the user's ghost_profile: the code
\* row is stored, the user and the profile are read.  g is the X-Ghost-ID
\* header, c the six random digits.
SendOTP(s, e, c, g) ==
  /\ ~Busy(s)
  /\ Len(vcodes) < MaxCodes
  /\ vcodes' = Append(vcodes, [email |-> e, code |-> c, is_used |-> FALSE, expired |-> FALSE])
  /\ LET P1 == Middleware(profiles, g)
     IN IF e \in users
        THEN IF GhostProfileIn(P1, e) = NoGhost
             THEN /\ profiles' = P1
                  /\ Goto(s, [pc |-> "send_create", email |-> e])
                  /\ Respond(NoResp)
             ELSE /\ profiles' = P1
                  /\ inflight' = inflight
                  /\ Respond([op |-> "send", status |-> 200, ghost_id |-> GhostProfileIn(P1, e)])
        ELSE IF g # NoGhost
             THEN /\ profiles' = P1
                  /\ inflight' = inflight
                  /\ Respond([op |-> "send", status |-> 200, ghost_id |-> g])
             ELSE /\ GhostIds \ DOMAIN P1 # {}
                  /\ profiles' = Put(P1, FreshIn(GhostIds, DOMAIN P1), [user |-> NoUser])
                  /\ inflight' = inflight
                  /\ Respond([op |-> "send", status |-> 200,
                              ghost_id |-> FreshIn(GhostIds, DOMAIN P1)])
  /\ UNCHANGED <<users, boards, notes, upvotes, invites, accepted>>
  /\ Silent

\* SendOTPView.post: AnonymousProfile.objects.create(user=user, ghost_id=uuid4())
SendCreate(s) ==
  /\ inflight[s].pc = "send_create"
  /\ GhostIds \ DOMAIN profiles # {}
  /\ LET e == inflight[s].email
         g == FreshIn(GhostIds, DOMAIN profiles)
     IN IF UniqueUserOk(profiles, g, e)
        THEN /\ profiles' = Put(profiles, g, [user |-> e])
             /\ Respond([op |-> "send", status |-> 200, ghost_id |-> g])
        ELSE /\ profiles' = profiles      \* IntegrityError
             /\ Respond([op |-> "send", status |-> 500, ghost_id |-> NoGhost])
  /\ Finish(s)
  /\ UNCHANGED <<users, vcodes, boards, notes, upvotes, invites, accepted>>
  /\ Silent

\* rows a ghost owns
BoardsOf(g) == {b \in DOMAIN boards : boards[b].creator_ghost = g}

\* The answer of VerifyOTPView.post.  ghost_id is user_data["ghost_id"]:
\* user.ghost_profile when the account has one (the reverse accessor is set
\* by `ghost.user = user`), else the presented ghost; tokens stands for the
\* refresh and access tokens; anonymous_boards is filled on a conflict.
VerifyResp(st, e, g, row, conflict, had, data, linked) ==
  [op |-> "verify", status |-> st, email |-> e, ghost |-> g, row |-> row,
   has_conflict |-> conflict, had |-> had, has_data |-> data, linked |-> linked,
   ghost_id |-> IF st # 200 THEN NoGhost
                ELSE IF conflict THEN (IF had # NoGhost THEN had ELSE g)
                ELSE linked,
   tokens |-> (st = 200),
   anonymous_boards |-> IF st = 200 /\ conflict THEN BoardsOf(g) ELSE {}]

\* VerifyOTPView.post: the code row is looked up and is_valid() is asked
VerifyCheckCode(s, e, c, g) ==
  /\ ~Busy(s)
  /\ LET row == FirstRow(e, c)
     IN IF row # 0 /\ IsValid(vcodes[row])
        THEN /\ Goto(s, [pc |-> "verify_resolve", email |-> e, ghost |-> g, row |-> row])
             /\ Respond(NoResp)
        ELSE /\ inflight' = inflight
             /\ Respond(VerifyResp(400, e, g, row, FALSE, NoGhost, FALSE, NoGhost))
  /\ UNCHANGED <<users, profiles, vcodes, boards, notes, upvotes, invites, accepted>>
  /\ Silent

\* a verification that always goes on with the presented ghost
VerifyTargetPresented(g, up, data) == g

\* The ghost the verification goes on with: the account's own profile when
\* it has another one and the presented ghost is empty.
VerifyTarget(g, up, data) ==
  IF up # NoGhost /\ up # g /\ ~data THEN up ELSE g

\* conflict_exists left at its initial False
VerifyConflictNever(g, up, data, gu) == FALSE

\* conflict_exists of VerifyOTPView.post; gu is the presented ghost's user
VerifyConflict(g, up, data, gu) ==
  IF up # NoGhost /\ up # g THEN data ELSE (data /\ gu = NoUser)

\* VerifyOTPView.post: the code is marked used, user and ghost are resolved,
\* the merge decision is taken; a conflict answers at once without a write.
VerifyResolve(s) ==
  /\ inflight[s].pc = "verify_resolve"
  /\ LET e == inflight[s].email
         g == inflight[s].ghost
         row == inflight[s].row
         P1 == GetOrCreateGhost(profiles, g)
         data == HasAnonymousData(g)
         up == GhostProfileIn(P1, e)
         conflict == VerifyConflict(g, up, data, P1[g].user)
     IN /\ vcodes' = [vcodes EXCEPT ![row].is_used = TRUE]
        /\ users' = users \cup {e}
        /\ profiles' = P1
        /\ IF conflict
           THEN /\ Finish(s)
                /\ accepted' = [accepted EXCEPT ![row] = @ + 1]
                /\ Respond(VerifyResp(200, e, g, row, TRUE, up, data, NoGhost))
           ELSE /\ Goto(s, [pc |-> "verify_link", email |-> e, ghost |-> g, row |-> row,
                            had |-> up, has_data |-> data,
                            target |-> VerifyTarget(g, up, data)])
                /\ accepted' = accepted
                /\ Respond(NoResp)
  /\ UNCHANGED <<boards, notes, upvotes, invites>>
  /\ Silent

\* VerifyOTPView.post: ghost.user = user; ghost.save(), then the tokens
VerifyLink(s) ==
  /\ inflight[s].pc = "verify_link"
  /\ LET r == inflight[s]
     IN IF UniqueUserOk(profiles, r.target, r.email)
        THEN /\ profiles' = Put(profiles, r.target, [user |-> r.email])
             /\ accepted' = [accepted EXCEPT ![r.row] = @ + 1]
             /\ Respond(VerifyResp(200, r.email, r.ghost, r.row, FALSE, r.had,
                                   r.has_data, r.target))
        ELSE /\ profiles' = profiles      \* IntegrityError
             /\ accepted' = accepted
             /\ Respond(VerifyResp(500, r.email, r.ghost, r.row, FALSE, r.had,
                                   r.has_data, NoGhost))
  /\ Finish(s)
  /\ UNCHANGED <<users, vcodes, boards, notes, upvotes, invites>>
  /\ Silent

NotesOf(g) == {n \in DOMAIN notes : notes[n].creator_ghost = g}

UpvotesOf(g) == {n \in NoteIds : <<n, g>> \in upvotes}

MigrateResp(st, r) ==
  [op |-> "migrate", status |-> st, user |-> r.user, source |-> r.source,
   target |-> r.target, had |-> r.had, boards0 |-> r.boards0,
   notes0 |-> r.notes0, upvotes0 |-> r.upvotes0]

\* target_ghost of MigrateGhostDataView.post; up is request.user.ghost_profile
MigrateTarget(src, up) == IF up # NoGhost THEN up ELSE src

\* MigrateGhostDataView.post: the source profile is fetched and the target
\* resolved.  e is the authenticated user, src the source_ghost_id given.
MigrateResolve(s, e, src) ==
  /\ ~Busy(s)
  /\ e \in users
  /\ IF src = NoGhost \/ src \notin DOMAIN profiles
     THEN /\ inflight' = inflight
          /\ Respond([op |-> "migrate", status |-> (IF src = NoGhost THEN 400 ELSE 404),
                      user |-> e, source |-> src, target |-> NoGhost, had |-> NoGhost,
                      boards0 |-> {}, notes0 |-> {}, upvotes0 |-> {}])
     ELSE LET up == GhostProfile(e)
              tgt == MigrateTarget(src, up)
          IN /\ Goto(s, [pc |-> IF src # tgt THEN "migrate_boards" ELSE "migrate_link",
                         user |-> e, source |-> src, target |-> tgt, had |-> up,
                         boards0 |-> BoardsOf(src), notes0 |-> NotesOf(src),
                         upvotes0 |-> UpvotesOf(src)])
             /\ Respond(NoResp)
  /\ UNCHANGED <<users, profiles, vcodes, boards, notes, upvotes, invites, accepted>>
  /\ Silent

\* Board.objects.filter(creator_ghost=source).update(creator_ghost=target)
MoveBoards(src, tgt) ==
  [b \in DOMAIN boards |->
     IF boards[b].creator_ghost = src
     THEN [boards[b] EXCEPT !.creator_ghost = tgt] ELSE boards[b]]

\* the note update left out
MoveNotesNone(src, tgt) == notes

\* Note.objects.filter(creator_ghost=source).update(creator_ghost=target)
MoveNotes(src, tgt) ==
  [n \in DOMAIN notes |->
     IF notes[n].creator_ghost = src
     THEN [notes[n] EXCEPT !.creator_ghost = tgt] ELSE notes[n]]

\* Upvote.objects.filter(ghost=source).update(ghost=target)
MoveUpvotes(src, tgt) ==
  {<<u[1], IF u[2] = src THEN tgt ELSE u[2]>> : u \in upvotes}

\* unique_together (note, ghost): the update fails as a whole on a duplicate
UpvotesClash(src, tgt) ==
  \E n \in NoteIds : <<n, src>> \in upvotes /\ <<n, tgt>> \in upvotes

MigrateBoards(s) ==
  /\ inflight[s].pc = "migrate_boards"
  /\ boards' = MoveBoards(inflight[s].source, inflight[s].target)
  /\ Goto(s, [inflight[s] EXCEPT !.pc = "migrate_notes"])
  /\ Respond(NoResp)
  /\ UNCHANGED <<users, profiles, vcodes, notes, upvotes, invites, accepted>>
  /\ Silent

MigrateNotes(s) ==
  /\ inflight[s].pc = "migrate_notes"
  /\ notes' = MoveNotes(inflight[s].source, inflight[s].target)
  /\ Goto(s, [inflight[s] EXCEPT !.pc = "migrate_upvotes"])
  /\ Respond(NoResp)
  /\ UNCHANGED <<users, profiles, vcodes, boards, upvotes, invites, accepted>>
  /\ Silent

MigrateUpvotes(s) ==
  /\ inflight[s].pc = "migrate_upvotes"
  /\ IF UpvotesClash(inflight[s].source, inflight[s].target)
     THEN /\ upvotes' = upvotes          \* IntegrityError, the request ends
          /\ Finish(s)
          /\ Respond(MigrateResp(500, inflight[s]))
     ELSE /\ upvotes' = MoveUpvotes(inflight[s].source, inflight[s].target)
          /\ Goto(s, [inflight[s] EXCEPT !.pc = "migrate_link"])
          /\ Respond(NoResp)
  /\ UNCHANGED <<users, profiles, vcodes, boards, notes, invites, accepted>>
  /\ Silent

\* target_ghost.user = request.user; target_ghost.save()
MigrateLink(s) ==
  /\ inflight[s].pc = "migrate_link"
  /\ LET r == inflight[s]
     IN IF UniqueUserOk(profiles, r.target, r.user)
        THEN /\ profiles' = Put(profiles, r.target, [user |-> r.user])
             /\ Respond(MigrateResp(200, r))
        ELSE /\ profiles' = profiles      \* IntegrityError
             /\ Respond(MigrateResp(500, r))
  /\ Finish(s)
  /\ UNCHANGED <<users, vcodes, boards, notes, upvotes, invites, accepted>>
  /\ Silent

\* ------------------------------------------------------------ board claim
\* What BoardViewSet.claim reads before it writes: the board row, whether the
\* queryset lists it, the permission's has_admin_rights, the two matches of
\* the view's own check, the account owning the board and the account's own
\* ghost (user_ghost).
ClaimRead(req, b) ==
  [req |-> req, board |-> b, obj |-> boards[b],
   listed |-> b \in BoardQueryset(req),
   admin |-> HasAdminRights(req, b),
   ghost_match |-> (req.ghost # NoGhost /\ boards[b].creator_ghost = req.ghost),
   token_match |-> StrEq(TokenOf(b), req.token),
   owner |-> OwnerUser(b),
   had |-> GhostProfile(req.user)]

\* the response of a claim that read r; tgt the ghost it gave the board to,
\* made whether it created that ghost
ClaimResp(st, detail, r, tgt, made) ==
  [op |-> "claim", status |-> st, detail |-> detail, read |-> r,
   target |-> tgt, made |-> made]

\* a check that lets every claimant through
ClaimPermittedAny(r) == TRUE

\* the view's own check: the request ghost created the board, or the header
\* is the secret as the server prints it
ClaimPermitted(r) == r.ghost_match \/ r.token_match

\* BoardViewSet.claim, for the pk of a stored board, from get_object() to the
\* choice of the ghost that will own the board.  The link write and the board
\* write follow as own steps.
ClaimCheck(s, req, b) ==
  /\ ~Busy(s)
  /\ req.user \in users \cup {NoUser}
  /\ b \in DOMAIN boards
  /\ profiles' = Middleware(profiles, req.ghost)
  /\ LET g == req.ghost
         u == req.user
         gu == IF g = NoGhost THEN NoUser ELSE Middleware(profiles, g)[g].user
         ug == GhostProfile(u)
         r == ClaimRead(req, b)
         Answer(st, detail) ==
           /\ inflight' = inflight
           /\ Respond(ClaimResp(st, detail, r, NoGhost, FALSE))
         Transfer(tgt) ==
           IF boards[b].creator_ghost # tgt
           THEN /\ Goto(s, [pc |-> "claim_transfer", read |-> r, target |-> tgt,
                            made |-> FALSE])
                /\ Respond(NoResp)
           ELSE /\ inflight' = inflight
                /\ Respond(ClaimResp(200, "claimed", r, tgt, FALSE))
         Link(mode) ==
           /\ Goto(s, [pc |-> "claim_link", read |-> r, mode |-> mode])
           /\ Respond(NoResp)
     IN IF ~r.listed THEN Answer(404, "not_found")
        ELSE IF ~HasObjectPermission(req, "POST", TRUE, b, NoGhost, {})
        THEN Answer(403, "forbidden")
        ELSE IF ~ClaimPermitted(r) THEN Answer(403, "denied")
        ELSE IF IsClaimed(b)
        THEN (IF OwnerUser(b) = u THEN Answer(200, "already_own")
              ELSE Answer(400, "claimed_by_other"))
        ELSE IF g = NoGhost THEN Answer(500, "error")          \* None.user
        ELSE IF gu = NoUser
             THEN (IF ug # NoGhost THEN Transfer(ug)
                   ELSE IF u = NoUser THEN Answer(500, "error")   \* AnonymousUser is no User
                   ELSE Link("save"))
        ELSE IF gu # u
             THEN (IF r.token_match
                   THEN (IF ug # NoGhost THEN Transfer(ug)
                         ELSE IF u = NoUser THEN Answer(500, "error")
                         ELSE Link("create"))
                   ELSE Answer(400, "identity_conflict"))
        ELSE Transfer(g)
  /\ UNCHANGED <<users, vcodes, boards, notes, upvotes, invites, accepted>>
  /\ Silent

\* ghost.user = request.user; ghost.save(), or
\* AnonymousProfile.objects.create(user=request.user, ghost_id=uuid4())
ClaimLink(s) ==
  /\ inflight[s].pc = "claim_link"
  /\ LET r == inflight[s].read
         made == inflight[s].mode = "create"
         g == IF made THEN FreshIn(GhostIds, DOMAIN profiles) ELSE r.req.ghost
     IN /\ made => GhostIds \ DOMAIN profiles # {}
        /\ IF UniqueUserOk(profiles, g, r.req.user)
           THEN /\ profiles' = Put(profiles, g, [user |-> r.req.user])
                /\ IF r.obj.creator_ghost # g
                   THEN /\ Goto(s, [pc |-> "claim_transfer", read |-> r, target |-> g,
                                    made |-> made])
                        /\ Respond(NoResp)
                   ELSE /\ Finish(s)
                        /\ Respond(ClaimResp(200, "claimed", r, g, made))
           ELSE /\ profiles' = profiles      \* IntegrityError
                /\ Finish(s)
                /\ Respond(ClaimResp(500, "error", r, NoGhost, FALSE))
  /\ UNCHANGED <<users, vcodes, boards, notes, upvotes, invites, accepted>>
  /\ Silent

\* a transfer that saves the board as it was read
ClaimedRowKept(obj, tgt) == obj

\* board.creator_ghost = ghost, on the board object the view read
ClaimedRow(obj, tgt) == [obj EXCEPT !.creator_ghost = tgt]

\* board.creator_ghost = ghost; board.save() writes the row as it was read
ClaimTransfer(s) ==
  /\ inflight[s].pc = "claim_transfer"
  /\ LET r == inflight[s].read
         tgt == inflight[s].target
     IN /\ boards' = Put(boards, r.board, ClaimedRow(r.obj, tgt))
        /\ Respond(ClaimResp(200, "claimed", r, tgt, inflight[s].made))
  /\ Finish(s)
  /\ UNCHANGED <<users, profiles, vcodes, notes, upvotes, invites, accepted>>
  /\ Emit(One(BoardSaved(inflight[s].read.board, boards'[inflight[s].read.board], FALSE)))

\* --------------------------------------------------------- boards and notes
\* BoardViewSet.create / perform_create
CreateBoard(req, pub) ==
  /\ profiles' = Middleware(profiles, req.ghost)
  /\ IF req.ghost = NoGhost
     THEN /\ boards' = boards
          /\ Respond([op |-> "board_create", status |-> 400])
     ELSE /\ BoardIds \ DOMAIN boards # {}
          /\ boards' = Put(boards, FreshIn(BoardIds, DOMAIN boards),
                           [creator_ghost |-> req.ghost, is_public |-> pub,
                            secret_admin_token |-> 0, is_soft_deleted |-> FALSE])
          /\ Respond([op |-> "board_create", status |-> 201])
  /\ UNCHANGED <<users, vcodes, notes, upvotes, invites, inflight, accepted>>
  /\ Emit(IF resp'.status = 201
          THEN One(BoardSaved(FreshIn(BoardIds, DOMAIN boards),
                              boards'[FreshIn(BoardIds, DOMAIN boards)], TRUE))
          ELSE EmptyBag)

\* NoteViewSet.perform_create; the serializer takes any existing board
CreateNote(req, b, content, px, py) ==
  /\ b \in DOMAIN boards
  /\ profiles' = Middleware(profiles, req.ghost)
  /\ IF req.ghost = NoGhost
     THEN /\ notes' = notes
          /\ Respond([op |-> "note_create", status |-> 400])
     ELSE IF \/ boards[b].is_public
             \/ boards[b].creator_ghost = req.ghost
             \/ StrEq(TokenOf(b), req.token)
          THEN /\ NoteIds \ DOMAIN notes # {}
               /\ notes' = Put(notes, FreshIn(NoteIds, DOMAIN notes),
                               [board |-> b, creator_ghost |-> req.ghost,
                                content |-> content,
                                position_x |-> px, position_y |-> py])
               /\ Respond([op |-> "note_create", status |-> 201,
                            by_secret |-> StrEq(TokenOf(b), req.token)])
          ELSE /\ notes' = notes
               /\ Respond([op |-> "note_create", status |-> 403,
                            by_secret |-> FALSE])
  /\ UNCHANGED <<users, vcodes, boards, upvotes, invites, inflight, accepted>>
  /\ Emit(IF resp'.status = 201
          THEN One(NoteSaved(FreshIn(NoteIds, DOMAIN notes),
                             notes'[FreshIn(NoteIds, DOMAIN notes)], TRUE))
          ELSE EmptyBag)

\* ------------------------------------------------------------------ upvotes
\* upvote_added: position * GRAVITY_FACTOR.  A coordinate is <<v, k>>, the
\* float v * 0.95^k.
Gravity(p) == IF p[1] = 0 THEN p ELSE <<p[1], p[2] + 1>>

CanPull(p) == p[1] = 0 \/ p[2] < MaxPulls

\* the answer of toggle_upvote to ghost g about note n
ToggleResp(st, act, n, g) ==
  [op |-> "toggle", status |-> st, action |-> act, note |-> n, ghost |-> g]

\* NoteViewSet.toggle_upvote with the post_save / post_delete receivers
ToggleUpvote(req, n) ==
  /\ profiles' = Middleware(profiles, req.ghost)
  /\ IF n \notin NoteQueryset(req)
     THEN /\ UNCHANGED <<notes, upvotes>>
          /\ Respond(ToggleResp(404, "none", n, req.ghost))
     ELSE IF req.ghost = NoGhost
     THEN /\ UNCHANGED <<notes, upvotes>>
          /\ Respond(ToggleResp(400, "none", n, req.ghost))
     ELSE IF notes[n].creator_ghost = req.ghost
     THEN /\ UNCHANGED <<notes, upvotes>>
          /\ Respond(ToggleResp(403, "none", n, req.ghost))
     ELSE IF <<n, req.ghost>> \notin upvotes
     THEN /\ CanPull(notes[n].position_x) /\ CanPull(notes[n].position_y)
          /\ upvotes' = upvotes \cup {<<n, req.ghost>>}
          /\ notes' = [notes EXCEPT ![n].position_x = Gravity(@),
                                    ![n].position_y = Gravity(@)]
          /\ Respond(ToggleResp(200, "upvoted", n, req.ghost))
     ELSE /\ upvotes' = upvotes \ {<<n, req.ghost>>}
          /\ notes' = notes
          /\ Respond(ToggleResp(200, "unvoted", n, req.ghost))
  /\ UNCHANGED <<users, vcodes, boards, invites, inflight, accepted>>
  /\ Emit(IF resp'.status = 200 THEN One(NoteSaved(n, notes'[n], FALSE)) ELSE EmptyBag)

\* ------------------------------------------- toggle_upvote, by statement
\* toggle_upvote up to get_or_create: get_object(), the ghost and own-note
\* checks. `note` is the row as get_object() read it.
ToggleGetObject(s, req, n) ==
  /\ ~Busy(s)
  /\ profiles' = Middleware(profiles, req.ghost)
  /\ IF n \notin NoteQueryset(req)
     THEN inflight' = inflight /\ Respond(ToggleResp(404, "none", n, req.ghost))
     ELSE IF req.ghost = NoGhost
     THEN inflight' = inflight /\ Respond(ToggleResp(400, "none", n, req.ghost))
     ELSE IF notes[n].creator_ghost = req.ghost
     THEN inflight' = inflight /\ Respond(ToggleResp(403, "none", n, req.ghost))
     ELSE /\ Goto(s, [pc |-> "vote_get", n |-> n, ghost |-> req.ghost,
                      note |-> notes[n]])
          /\ Respond(NoResp)
  /\ UNCHANGED <<users, vcodes, boards, notes, upvotes, invites, accepted>>
  /\ Silent

\* get_or_create: self.get(note=note, ghost=ghost)
ToggleGet(s) ==
  /\ inflight[s].pc = "vote_get"
  /\ Goto(s, [inflight[s] EXCEPT
                !.pc = IF <<inflight[s].n, inflight[s].ghost>> \in upvotes
                       THEN "vote_delete" ELSE "vote_create"])
  /\ Respond(NoResp)
  /\ UNCHANGED <<users, profiles, vcodes, boards, notes, upvotes, invites, accepted>>
  /\ Silent

\* upvote_added (post_save of Upvote, created): the note the Upvote instance
\* carries, pulled towards the origin
UpvoteAdded(note) ==
  [note EXCEPT !.position_x = Gravity(@), !.position_y = Gravity(@)]

\* get_or_create: create() in its transaction. The INSERT meets the unique
\* index of (note, ghost); when it goes through, upvote_added saves the note
\* object the view passed in, every column of it.
ToggleCreate(s) ==
  /\ inflight[s].pc = "vote_create"
  /\ LET n == inflight[s].n
         g == inflight[s].ghost
         held == inflight[s].note
     IN IF <<n, g>> \in upvotes
        THEN /\ Goto(s, [inflight[s] EXCEPT !.pc = "vote_reget"])   \* IntegrityError
             /\ UNCHANGED <<notes, upvotes>>
             /\ Respond(NoResp)
        ELSE /\ CanPull(held.position_x) /\ CanPull(held.position_y)
             /\ upvotes' = upvotes \cup {<<n, g>>}
             /\ notes' = [notes EXCEPT ![n] = UpvoteAdded(held)]
             /\ Finish(s)
             /\ Respond(ToggleResp(200, "upvoted", n, g))
  /\ UNCHANGED <<users, profiles, vcodes, boards, invites, accepted>>
  /\ Emit(IF resp' # NoResp
          THEN One(NoteSaved(inflight[s].n, notes'[inflight[s].n], FALSE))
          ELSE EmptyBag)

\* get_or_create after the IntegrityError: the second self.get(); when the
\* row is gone again the IntegrityError is raised to the caller
ToggleReget(s) ==
  /\ inflight[s].pc = "vote_reget"
  /\ IF <<inflight[s].n, inflight[s].ghost>> \in upvotes
     THEN Goto(s, [inflight[s] EXCEPT !.pc = "vote_delete"]) /\ Respond(NoResp)
     ELSE Finish(s) /\ Respond(ToggleResp(500, "none", inflight[s].n, inflight[s].ghost))
  /\ UNCHANGED <<users, profiles, vcodes, boards, notes, upvotes, invites, accepted>>
  /\ Silent

\* an upvote_removed that saves the note object of the view
UpvoteRemovedHeld(fresh, held) == held

\* upvote_removed (post_delete of Upvote): instance.note of an Upvote that
\* came from get() is not cached, so the row is read again and then saved
UpvoteRemoved(fresh, held) == fresh

\* upvote.delete(): Collector.delete in its transaction; the DELETE, then
\* post_delete whether or not a row was left to delete
ToggleDelete(s) ==
  /\ inflight[s].pc = "vote_delete"
  /\ LET n == inflight[s].n
         g == inflight[s].ghost
     IN /\ upvotes' = upvotes \ {<<n, g>>}
        /\ notes' = [notes EXCEPT ![n] = UpvoteRemoved(notes[n], inflight[s].note)]
        /\ Finish(s)
        /\ Respond(ToggleResp(200, "unvoted", n, g))
  /\ UNCHANGED <<users, profiles, vcodes, boards, invites, accepted>>
  /\ Emit(One(NoteSaved(inflight[s].n, notes'[inflight[s].n], FALSE)))

ToggleSteps(s) == ToggleGet(s) \/ ToggleCreate(s) \/ ToggleReget(s) \/ ToggleDelete(s)

\* ------------------------------------------------------------- board writes
BoardWriteResp(act, st, req, b) ==
  [op |-> "board_write", action |-> act, status |-> st,
   listed |-> (b \in BoardQueryset(req)),
   admin |-> (b \in DOMAIN boards /\ HasAdminRights(req, b)),
   by_secret |-> (b \in DOMAIN boards /\ LowerEq(TokenOf(b), req.token)),
   creator |-> (b \in DOMAIN boards /\ req.ghost # NoGhost
                /\ boards[b].creator_ghost = req.ghost)]

\* a get_object() that lets every request through
BoardGateOpen(req, method, b) == 0

\* get_object() of BoardViewSet for a writing detail route: the queryset,
\* then IsOwnerOrAdminToken; 0 when the route may go on
BoardGate(req, method, b) ==
  IF b \notin BoardQueryset(req) THEN 404
  ELSE IF ~HasObjectPermission(req, method, TRUE, b, NoGhost, {}) THEN 403
  ELSE 0

\* BoardViewSet.update / partial_update (is_public stands for the writable
\* fields title and is_public)
BoardUpdate(req, b, pub) ==
  /\ profiles' = Middleware(profiles, req.ghost)
  /\ LET gate == BoardGate(req, "PATCH", b)
     IN IF gate # 0
        THEN /\ boards' = boards
             /\ Respond(BoardWriteResp("update", gate, req, b))
        ELSE /\ boards' = [boards EXCEPT ![b].is_public = pub]
             /\ Respond(BoardWriteResp("update", 200, req, b))
  /\ UNCHANGED <<users, vcodes, notes, upvotes, invites, inflight, accepted>>
  /\ Emit(IF resp'.status = 200 THEN One(BoardSaved(b, boards'[b], FALSE)) ELSE EmptyBag)

\* BoardViewSet.destroy
BoardDestroy(req, b) ==
  /\ profiles' = Middleware(profiles, req.ghost)
  /\ LET gate == BoardGate(req, "DELETE", b)
     IN IF gate # 0
        THEN /\ boards' = boards
             /\ Respond(BoardWriteResp("destroy", gate, req, b))
        ELSE /\ boards' = [boards EXCEPT ![b].is_soft_deleted = TRUE]
             /\ Respond(BoardWriteResp("destroy", 204, req, b))
  /\ UNCHANGED <<users, vcodes, notes, upvotes, invites, inflight, accepted>>
  /\ Emit(IF resp'.status = 204 THEN One(BoardSaved(b, boards'[b], FALSE)) ELSE EmptyBag)

\* BoardViewSet.revoke_link
RevokeLink(req, b) ==
  /\ profiles' = Middleware(profiles, req.ghost)
  /\ LET gate == BoardGate(req, "POST", b)
     IN IF gate # 0
        THEN /\ boards' = boards
             /\ Respond(BoardWriteResp("revoke", gate, req, b))
        ELSE /\ boards[b].secret_admin_token < MaxRevokes
             /\ boards' = [boards EXCEPT ![b].secret_admin_token = @ + 1]
             /\ Respond(BoardWriteResp("revoke", 200, req, b))
  /\ UNCHANGED <<users, vcodes, notes, upvotes, invites, inflight, accepted>>
  /\ Emit(IF resp'.status = 200 THEN One(BoardSaved(b, boards'[b], FALSE)) ELSE EmptyBag)

\* BoardViewSet.invite: POST adds the invite, DELETE removes it
Invite(req, b, method, email) ==
  /\ profiles' = Middleware(profiles, req.ghost)
  /\ LET gate == BoardGate(req, method, b)
     IN IF gate # 0
        THEN /\ invites' = invites
             /\ Respond(BoardWriteResp("invite", gate, req, b))
        ELSE IF method = "POST"
        THEN /\ invites' = invites \cup {<<b, email>>}
             /\ Respond(BoardWriteResp("invite", 201, req, b))
        ELSE /\ invites' = invites \ {<<b, email>>}
             /\ Respond(BoardWriteResp("invite", 204, req, b))
  /\ UNCHANGED <<users, vcodes, boards, notes, upvotes, inflight, accepted>>
  /\ Emit(IF resp'.status = 201 /\ <<b, email>> \notin invites
          THEN One(BoardInviteSaved(b, email))
          ELSE EmptyBag)

\* ---------------------------------------------------------- access requests
\* AccessRequest.email = None
NoEmail == "noemail"

\* the rows the duplicate filter of request_access matches, in primary-key
\* order: the board's rows of this ghost or, when an email is given, of
\* this email
Dupes(b, g, email) ==
  {i \in 1..Len(access) :
     /\ access[i].board = b
     /\ access[i].ghost = g \/ (email # NoEmail /\ access[i].email = email)}

Lowest(I) == CHOOSE i \in I : \A j \in I : i <= j

\* BoardViewSet.request_access
RequestAccess(req, b, email) ==
  /\ profiles' = Middleware(profiles, req.ghost)
  /\ IF b \notin DOMAIN boards \/ boards[b].is_soft_deleted
     THEN /\ access' = access        \* Board.DoesNotExist is not caught
          /\ Respond([op |-> "request_access", status |-> 500, detail |-> "error",
                      board |-> b, ghost |-> req.ghost])
     ELSE IF req.ghost = NoGhost
     THEN /\ access' = access
          /\ Respond([op |-> "request_access", status |-> 400, detail |-> "no_ghost",
                      board |-> b, ghost |-> req.ghost])
     ELSE IF Dupes(b, req.ghost, email) = {}
     THEN /\ access' = Append(access, [board |-> b, ghost |-> req.ghost,
                                       email |-> email, status |-> "PENDING"])
          /\ Respond([op |-> "request_access", status |-> 201, detail |-> "submitted",
                      board |-> b, ghost |-> req.ghost])
     ELSE LET i == Lowest(Dupes(b, req.ghost, email))
          IN IF access[i].status = "REJECTED"
             THEN /\ access' = [access EXCEPT ![i].status = "PENDING",
                                              ![i].email = email]
                  /\ Respond([op |-> "request_access", status |-> 201, detail |-> "resubmitted",
                      board |-> b, ghost |-> req.ghost])
             ELSE /\ access' = access
                  /\ Respond([op |-> "request_access", status |-> 400, detail |-> "duplicate",
                      board |-> b, ghost |-> req.ghost])
  /\ emitted' = EmptyBag
  /\ UNCHANGED <<users, vcodes, boards, notes, upvotes, invites, inflight, accepted>>
  /\ Stamp

AccessResp(st, b, i, new_status) ==
  [op |-> "access_requests", status |-> st, board |-> b, request_id |-> i,
   new_status |-> new_status,
   was |-> IF i \in 1..Len(access) THEN access[i] ELSE [board |-> b, status |-> "none"]]


\* new_status == 'APPROVED' and req_obj.email
InviteOnApproval(new_status, email) == new_status = "APPROVED" /\ email # NoEmail

\* BoardViewSet.access_requests, PATCH: request_id i, status new_status
AccessRequests(req, b, i, new_status) ==
  /\ profiles' = Middleware(profiles, req.ghost)
  /\ LET gate == BoardGate(req, "PATCH", b)
     IN IF gate # 0
        THEN /\ UNCHANGED <<access, invites>>
             /\ emitted' = EmptyBag
             /\ Respond(AccessResp(gate, b, i, new_status))
        ELSE IF new_status \notin {"APPROVED", "REJECTED"}
        THEN /\ UNCHANGED <<access, invites>>
             /\ emitted' = EmptyBag
             /\ Respond(AccessResp(400, b, i, new_status))
        ELSE IF i \notin 1..Len(access) \/ access[i].board # b
        THEN /\ UNCHANGED <<access, invites>>
             /\ emitted' = EmptyBag
             /\ Respond(AccessResp(404, b, i, new_status))
        ELSE LET row == [access[i] EXCEPT !.status = new_status]
                 invite == InviteOnApproval(new_status, row.email)
             IN /\ access' = [access EXCEPT ![i] = row]
                /\ invites' = IF invite THEN invites \cup {<<b, row.email>>} ELSE invites
                /\ emitted' =
                     (IF new_status = "REJECTED" THEN One(AccessRequestSaved(row))
                      ELSE EmptyBag)
                     (+) (IF invite /\ <<b, row.email>> \notin invites
                          THEN One(BoardInviteSaved(b, row.email))
                          ELSE EmptyBag)
                /\ Respond(AccessResp(200, b, i, new_status))
  /\ UNCHANGED <<users, vcodes, boards, notes, upvotes, inflight, accepted>>
  /\ Stamp

\* -------------------------------------------------------------- note writes
NoteFields == {"content", "position_x", "position_y"}

FieldKind(fields) ==
  IF fields = {} THEN "empty"
  ELSE IF fields \subseteq {"position_x", "position_y"} THEN "position"
  ELSE "other"

NoteWriteResp(method, st, req, n, fields) ==
  [op |-> "note_write", method |-> method, status |-> st, kind |-> FieldKind(fields),
   found |-> (n \in DOMAIN notes),
   author |-> (n \in DOMAIN notes /\ IsNoteAuthor(req, notes[n].creator_ghost)),
   admin |-> (n \in DOMAIN notes /\ HasAdminRights(req, notes[n].board)),
   readable |-> (n \in DOMAIN notes /\ NoteAccess(req, notes[n].board)),
   deleted |-> (n \in DOMAIN notes /\ boards[notes[n].board].is_soft_deleted)]

\* get_object() of NoteViewSet for a writing route: the queryset, then
\* IsOwnerOrAdminToken; 0 when the route may go on
NoteGate(req, method, n, fields) ==
  IF n \notin NoteQueryset(req) THEN 404
  ELSE IF ~HasObjectPermission(req, method, FALSE, notes[n].board,
                               notes[n].creator_ghost, fields) THEN 403
  ELSE 0

\* the note after the serializer has stored the given fields
Patched(note, fields, c, p) ==
  [note EXCEPT !.content = IF "content" \in fields THEN c ELSE @,
               !.position_x = IF "position_x" \in fields THEN p ELSE @,
               !.position_y = IF "position_y" \in fields THEN p ELSE @]

\* NoteViewSet.update (PUT, every field) / partial_update (PATCH, the given
\* fields); content stands for every field that is not a coordinate
NoteUpdate(req, n, method, fields, c, p) ==
  /\ method \in {"PUT", "PATCH"}
  /\ method = "PUT" => fields = NoteFields
  /\ profiles' = Middleware(profiles, req.ghost)
  /\ LET gate == NoteGate(req, method, n, fields)
     IN IF gate # 0
        THEN /\ notes' = notes
             /\ Respond(NoteWriteResp(method, gate, req, n, fields))
        ELSE /\ notes' = [notes EXCEPT ![n] = Patched(@, fields, c, p)]
             /\ Respond(NoteWriteResp(method, 200, req, n, fields))
  /\ UNCHANGED <<users, vcodes, boards, upvotes, invites, inflight, accepted>>
  /\ Emit(IF resp'.status = 200 THEN One(NoteSaved(n, notes'[n], FALSE)) ELSE EmptyBag)

\* NoteViewSet.destroy; the upvotes of the note go with it (CASCADE), each
\* through upvote_removed, which saves the note once more
NoteDelete(req, n) ==
  /\ profiles' = Middleware(profiles, req.ghost)
  /\ LET gate == NoteGate(req, "DELETE", n, {})
     IN IF gate # 0
        THEN /\ UNCHANGED <<notes, upvotes>>
             /\ Respond(NoteWriteResp("DELETE", gate, req, n, {}))
        ELSE /\ notes' = Drop(notes, n)
             /\ upvotes' = {u \in upvotes : u[1] # n}
             /\ Respond(NoteWriteResp("DELETE", 204, req, n, {}))
  /\ UNCHANGED <<users, vcodes, boards, invites, inflight, accepted>>
  /\ Emit(IF resp'.status = 204
          THEN Times(NoteSaved(n, notes[n], FALSE), Cardinality({u \in upvotes : u[1] = n}))
                 (+) One(NoteDeleted(n, notes[n]))
          ELSE EmptyBag)

\* --------------------------------------------------------------------- reads
BoardViews == {"board_retrieve", "board_list", "discover", "my_boards",
               "invited", "history"}

NoteViews == {"note_list", "created_by_me", "upvoted_by_me"}

Live(b) == ~boards[b].is_soft_deleted

\* the ghosts of created_by_me / upvoted_by_me
MyGhosts(req) ==
  (IF req.ghost # NoGhost THEN {req.ghost} ELSE {})
    \cup (IF GhostProfile(req.user) # NoGhost THEN {GhostProfile(req.user)} ELSE {})

\* BoardViewSet.retrieve: the status for board b
RetrieveStatus(req, b) ==
  IF b \notin DOMAIN boards \/ ~Live(b) THEN 404
  ELSE IF boards[b].is_public THEN 200
  ELSE IF \/ (req.user # NoUser /\ OwnerUser(b) = req.user)
          \/ (req.ghost # NoGhost /\ boards[b].creator_ghost = req.ghost)
          \/ (req.user # NoUser /\ <<b, req.user>> \in invites)
          \/ StrEq(TokenOf(b), req.token)
       THEN 200
       ELSE 403

ReadStatus(view, req, b) ==
  IF view = "board_retrieve" THEN RetrieveStatus(req, b)
  ELSE IF view \in {"my_boards", "invited"} /\ req.user = NoUser THEN 401
  ELSE IF view = "history" /\ req.ghost = NoGhost THEN 400
  ELSE IF view \in {"created_by_me", "upvoted_by_me"} /\ MyGhosts(req) = {} THEN 400
  ELSE 200

\* the boards a board view serialises (each with its notes nested)
ReadBoards(view, req, b) ==
  IF ReadStatus(view, req, b) # 200 THEN {}
  ELSE IF view = "board_retrieve" THEN {b}
  ELSE IF view = "board_list" THEN BoardQueryset(req)
  ELSE IF view = "discover" THEN {x \in DOMAIN boards : boards[x].is_public /\ Live(x)}
  ELSE IF view = "my_boards" THEN {x \in DOMAIN boards : OwnerUser(x) = req.user}
  ELSE IF view = "invited" THEN {x \in DOMAIN boards : <<x, req.user>> \in invites}
  ELSE IF view = "history" THEN {x \in DOMAIN boards : boards[x].creator_ghost = req.ghost}
  ELSE {}

\* the notes a note view serialises
ReadNotes(view, req) ==
  IF ReadStatus(view, req, "") # 200 THEN {}
  ELSE IF view = "note_list" THEN NoteQueryset(req)
  ELSE IF view = "created_by_me"
       THEN {n \in DOMAIN notes : notes[n].creator_ghost \in MyGhosts(req)
                                    /\ Live(notes[n].board)}
  ELSE IF view = "upvoted_by_me"
       THEN {n \in DOMAIN notes : (\E g \in MyGhosts(req) : <<n, g>> \in upvotes)
                                    /\ Live(notes[n].board)}
  ELSE {}

\* the boards whose creator, owner, invitee or secret holder the requester is
MayView(req) ==
  {b \in DOMAIN boards :
     \/ (req.ghost # NoGhost /\ boards[b].creator_ghost = req.ghost)
     \/ (req.user # NoUser /\ OwnerUser(b) = req.user)
     \/ (req.user # NoUser /\ <<b, req.user>> \in invites)
     \/ req.token.val = TokenOf(b)}

\* a GET route; b is the pk of board_retrieve
Read(req, view, b) ==
  /\ profiles' = Middleware(profiles, req.ghost)
  /\ Respond([op |-> "read", view |-> view, status |-> ReadStatus(view, req, b),
              boards_out |-> ReadBoards(view, req, b),
              notes_out |-> ReadNotes(view, req),
              may_view |-> MayView(req)])
  /\ UNCHANGED <<users, vcodes, boards, notes, upvotes, invites, inflight, accepted>>
  /\ Silent

\* ---------------------------------------------------------------- retention
\* purge_expired_data: timedelta(days=30) and timedelta(days=7)
ThirtyDays == 30

SevenDays == 7

\* the tables the command reads and writes, and those its deletes cascade to
Store ==
  [profiles |-> profiles, boards |-> boards, notes |-> notes,
   upvotes |-> upvotes, invites |-> invites, stamps |-> stamps,
   access |-> access]

Restrict(f, D) == [x \in D |-> f[x]]

\* the first filter without is_soft_deleted=False
GhostExpiredAgain(row, t) == row.created_at < t - ThirtyDays

\* filter(created_at__lt=thirty_days_ago, is_soft_deleted=False)
GhostExpired(row, t) ==
  /\ row.created_at < t - ThirtyDays
  /\ ~row.is_soft_deleted

\* the second filter without soft_deleted_at__lt
PurgeableAtOnce(soft, at, t) == soft

\* filter(is_soft_deleted=True, soft_deleted_at__lt=seven_days_ago); a NULL
\* soft_deleted_at is less than nothing
Purgeable(soft, at, t) ==
  /\ soft
  /\ at # Never
  /\ at < t - SevenDays

\* the third filter without creator_ghost__user__isnull
BoardExpiredAny(S, b, t) ==
  /\ S.stamps.board[b].created_at < t - ThirtyDays
  /\ ~S.boards[b].is_soft_deleted

\* filter(created_at__lt=thirty_days_ago, is_soft_deleted=False,
\*        creator_ghost__user__isnull=True)
BoardExpired(S, b, t) ==
  /\ S.stamps.board[b].created_at < t - ThirtyDays
  /\ ~S.boards[b].is_soft_deleted
  /\ S.profiles[S.boards[b].creator_ghost].user = NoUser

\* the four querysets of the command, each on the store its statement finds
ProfilesToSoftDelete(S, t) ==
  {g \in DOMAIN S.profiles : GhostExpired(S.stamps.ghost[g], t)}

ProfilesToHardDelete(S, t) ==
  {g \in DOMAIN S.profiles :
     Purgeable(S.stamps.ghost[g].is_soft_deleted, S.stamps.ghost[g].soft_deleted_at, t)}

BoardsToSoftDelete(S, t) == {b \in DOMAIN S.boards : BoardExpired(S, b, t)}

BoardsToHardDelete(S, t) ==
  {b \in DOMAIN S.boards :
     Purgeable(S.boards[b].is_soft_deleted, S.stamps.board[b].soft_deleted_at, t)}

\* QuerySet.delete() of the profiles G and the boards B: on_delete=CASCADE
\* takes the boards, notes, upvotes and access requests of a deleted
\* profile, the notes, invites and access requests of a deleted board and
\* the upvotes of a deleted note.
CascadeDelete(S, G, B) ==
  LET boardsGone == B \cup {b \in DOMAIN S.boards : S.boards[b].creator_ghost \in G}
      notesGone == {n \in DOMAIN S.notes :
                      \/ S.notes[n].creator_ghost \in G
                      \/ S.notes[n].board \in boardsGone}
  IN [profiles |-> Restrict(S.profiles, DOMAIN S.profiles \ G),
      boards |-> Restrict(S.boards, DOMAIN S.boards \ boardsGone),
      notes |-> Restrict(S.notes, DOMAIN S.notes \ notesGone),
      upvotes |-> {u \in S.upvotes : u[1] \notin notesGone /\ u[2] \notin G},
      invites |-> {i \in S.invites : i[1] \notin boardsGone},
      stamps |-> [ghost |-> Restrict(S.stamps.ghost, DOMAIN S.profiles \ G),
                  board |-> Restrict(S.stamps.board, DOMAIN S.boards \ boardsGone)],
      access |-> SelectSeq(S.access, LAMBDA r : r.board \notin boardsGone /\ r.ghost \notin G)]

\* the messages of the notes N while that delete() runs: upvote_removed
\* saves the note of every deleted upvote, note_deleted follows for every
\* deleted note; nothing listens to the other deletions
RECURSIVE CascadeSentOf(_, _, _, _)
CascadeSentOf(S, N, G, boardsGone) ==
  IF N = {} THEN EmptyBag
  ELSE LET n == CHOOSE x \in N : TRUE
           gone == S.notes[n].creator_ghost \in G \/ S.notes[n].board \in boardsGone
           ups == {u \in S.upvotes : u[1] = n /\ (gone \/ u[2] \in G)}
       IN Times(NoteSaved(n, S.notes[n], FALSE), Cardinality(ups))
            (+) (IF gone THEN One(NoteDeleted(n, S.notes[n])) ELSE EmptyBag)
            (+) CascadeSentOf(S, N \ {n}, G, boardsGone)

CascadeSent(S, G, B) ==
  CascadeSentOf(S, DOMAIN S.notes, G,
                B \cup {b \in DOMAIN S.boards : S.boards[b].creator_ghost \in G})

\* profiles_to_soft_delete.update(is_soft_deleted=True, soft_deleted_at=now)
SoftDeleteProfiles(S, t) ==
  LET G == ProfilesToSoftDelete(S, t)
  IN [S EXCEPT !.stamps.ghost =
        [g \in DOMAIN S.stamps.ghost |->
           IF g \in G
           THEN [S.stamps.ghost[g] EXCEPT !.is_soft_deleted = TRUE,
                                          !.soft_deleted_at = t]
           ELSE S.stamps.ghost[g]]]

\* profiles_to_hard_delete.delete()
HardDeleteProfiles(S, t) == CascadeDelete(S, ProfilesToHardDelete(S, t), {})

\* boards_to_soft_delete.update(is_soft_deleted=True, soft_deleted_at=now)
SoftDeleteBoards(S, t) ==
  LET B == BoardsToSoftDelete(S, t)
  IN [S EXCEPT !.boards =
        [b \in DOMAIN S.boards |->
           IF b \in B THEN [S.boards[b] EXCEPT !.is_soft_deleted = TRUE]
           ELSE S.boards[b]],
               !.stamps.board =
        [b \in DOMAIN S.stamps.board |->
           IF b \in B THEN [S.stamps.board[b] EXCEPT !.soft_deleted_at = t]
           ELSE S.stamps.board[b]]]

\* boards_to_hard_delete.delete()
HardDeleteBoards(S, t) == CascadeDelete(S, {}, BoardsToHardDelete(S, t))

\* Command.handle on the store S at the time t
Purge(S, t) ==
  HardDeleteBoards(SoftDeleteBoards(HardDeleteProfiles(SoftDeleteProfiles(S, t), t), t), t)

\* manage.py purge_expired_data; the counts are the ones it prints, again
\* tells a run that directly follows another run at the same time.  The two
\* update() calls send no signal, the two delete() calls do.
Sweep ==
  /\ LET S1 == SoftDeleteProfiles(Store, now)
         S2 == HardDeleteProfiles(S1, now)
         S3 == SoftDeleteBoards(S2, now)
         S4 == HardDeleteBoards(S3, now)
     IN /\ profiles' = S4.profiles
        /\ boards' = S4.boards
        /\ notes' = S4.notes
        /\ upvotes' = S4.upvotes
        /\ invites' = S4.invites
        /\ stamps' = S4.stamps
        /\ access' = S4.access
        /\ emitted' = CascadeSent(S1, ProfilesToHardDelete(S1, now), {})
                         (+) CascadeSent(S3, {}, BoardsToHardDelete(S3, now))
        /\ Respond([op |-> "purge", at |-> now,
                    again |-> (resp.op = "purge" /\ resp.at = now),
                    soft_count |-> Cardinality(ProfilesToSoftDelete(Store, now)),
                    hard_count |-> Cardinality(ProfilesToHardDelete(S1, now)),
                    board_soft_count |-> Cardinality(BoardsToSoftDelete(S2, now)),
                    board_hard_count |-> Cardinality(BoardsToHardDelete(S3, now))])
  /\ now' = now
  /\ UNCHANGED <<users, vcodes, inflight, accepted>>

\* d days pass
Tick(d) ==
  /\ now + d <= MaxClock
  /\ now' = now + d
  /\ Respond(NoResp)
  /\ UNCHANGED <<users, profiles, vcodes, boards, notes, upvotes, invites,
                 inflight, accepted, stamps, access>>
  /\ emitted' = EmptyBag

\* ------------------------------------------------------------ specifications
\* The state after migrate on an empty database.
Init ==
  /\ users = {}
  /\ profiles = << >>
  /\ vcodes = << >>
  /\ boards = << >>
  /\ notes = << >>
  /\ upvotes = {}
  /\ invites = {}
  /\ inflight = [s \in Slots |-> Idle]
  /\ accepted = [i \in 1..MaxCodes |-> 0]
  /\ resp = NoResp
  /\ now = 0
  /\ access = << >>
  /\ emitted = EmptyBag
  /\ stamps = [ghost |-> << >>, board |-> << >>]

\* no request is between two of its steps
Quiet == \A s \in Slots : ~Busy(s)

AnyGhost == GhostIds \cup {NoGhost}

AnyUser == users \cup {NoUser}

\* the X-Admin-Token values a client can hold: none, or a secret some board
\* has or had, written as the server printed it
KnownTokens ==
  {NoToken} \cup {[val |-> <<b, k>>, form |-> "canon"] :
                    b \in DOMAIN boards, k \in 0..MaxRevokes}

\* ... or the current secret in upper case or as 32 hex digits without dashes
SpeltTokens ==
  KnownTokens \cup {[val |-> TokenOf(b), form |-> f] :
                      b \in DOMAIN boards, f \in TokenForms}

Requests(G, U, T) == {Req(g, u, t) : g \in G, u \in U, t \in T}

\* a request of a browser that is not signed in and holds no secret
Anon(g) == Req(g, NoUser, NoToken)

\* the later steps of the multi-step handlers of slot s
SignInSteps(s) == SendCreate(s) \/ VerifyResolve(s) \/ VerifyLink(s)

MigrateSteps(s) ==
  MigrateBoards(s) \/ MigrateNotes(s) \/ MigrateUpvotes(s) \/ MigrateLink(s)

ClaimSteps(s) == ClaimLink(s) \/ ClaimTransfer(s)

\* One request at a time: sign-in, a board of the signed-out ghost, migration.
Next ==
  \/ Quiet /\ GenerateGhost
  \/ \E e \in Emails, c \in Codes, g \in AnyGhost : SendOTP("s1", e, c, g)
  \/ \E e \in Emails, c \in Codes, g \in GhostIds : VerifyCheckCode("s1", e, c, g)
  \/ \E e \in Emails, g \in AnyGhost : MigrateResolve("s1", e, g)
  \/ SignInSteps("s1")
  \/ MigrateSteps("s1")
  \/ \E g \in GhostIds : Quiet /\ CreateBoard(Anon(g), TRUE)

Spec == Init /\ [][Next]_vars

\* Two requests in flight at once, every statement of a handler a step of
\* its own (the database runs in autocommit): one account signing in from
\* two browsers.
RaceEmails == {"a"}

RaceGhosts == {"g1", "g2"}

RaceNext ==
  \/ ExpireCode
  \/ \E s \in Slots, e \in RaceEmails, g \in {"g1", NoGhost} : SendOTP(s, e, "c1", g)
  \/ \E s \in Slots, e \in RaceEmails, g \in RaceGhosts : VerifyCheckCode(s, e, "c1", g)
  \/ \E s \in Slots, e \in RaceEmails, g \in RaceGhosts : MigrateResolve(s, e, g)
  \/ \E s \in Slots, r \in Requests(RaceGhosts, users, KnownTokens), b \in BoardIds :
       ClaimCheck(s, r, b)
  \/ \E s \in Slots : SignInSteps(s) \/ MigrateSteps(s) \/ ClaimSteps(s)
  \/ \E g \in RaceGhosts : CreateBoard(Anon(g), TRUE)

RaceSpec == Init /\ [][RaceNext]_vars

\* Account a signed in with the empty ghost g1; ghost g2 made a board and
\* then verified for account b, which answered with a conflict and no link.
MigrateInit ==
  /\ users = {"a", "b"}
  /\ profiles = ("g1" :> [user |-> "a"]) @@ ("g2" :> [user |-> NoUser])
  /\ vcodes = << [email |-> "a", code |-> "c1", is_used |-> TRUE, expired |-> FALSE],
                 [email |-> "b", code |-> "c1", is_used |-> TRUE, expired |-> FALSE] >>
  /\ boards = "b1" :> [creator_ghost |-> "g2", is_public |-> TRUE,
                       secret_admin_token |-> 0, is_soft_deleted |-> FALSE]
  /\ notes = << >>
  /\ upvotes = {}
  /\ invites = {}
  /\ inflight = [s \in Slots |-> Idle]
  /\ accepted = [i \in 1..MaxCodes |-> IF i <= Len(vcodes) THEN 1 ELSE 0]
  /\ resp = NoResp
  /\ now = 0
  /\ access = << >>
  /\ emitted = EmptyBag
  /\ stamps = [ghost |-> [g \in DOMAIN profiles |->
                            [created_at |-> 0, is_soft_deleted |-> FALSE,
                             soft_deleted_at |-> Never]],
               board |-> [b \in DOMAIN boards |->
                            [created_at |-> 0, soft_deleted_at |-> Never]]]

\* One request at a time: notes and upvotes of three ghosts, and migrations.
MigrateNext ==
  \/ \E g \in GhostIds, b \in BoardIds :
       Quiet /\ CreateNote(Anon(g), b, "x", <<0, 0>>, <<0, 0>>)
  \/ \E g \in GhostIds, n \in NoteIds : Quiet /\ ToggleUpvote(Anon(g), n)
  \/ \E e \in Emails, g \in AnyGhost : MigrateResolve("s1", e, g)
  \/ MigrateSteps("s1")

MigrateSpec == MigrateInit /\ [][MigrateNext]_vars

\* Accounts a and b signed in with the empty ghosts g1 and g2.
AuthInit ==
  /\ users = {"a", "b"}
  /\ profiles = ("g1" :> [user |-> "a"]) @@ ("g2" :> [user |-> "b"])
  /\ vcodes = << [email |-> "a", code |-> "c1", is_used |-> TRUE, expired |-> FALSE],
                 [email |-> "b", code |-> "c1", is_used |-> TRUE, expired |-> FALSE] >>
  /\ boards = << >>
  /\ notes = << >>
  /\ upvotes = {}
  /\ invites = {}
  /\ inflight = [s \in Slots |-> Idle]
  /\ accepted = [i \in 1..MaxCodes |-> IF i <= Len(vcodes) THEN 1 ELSE 0]
  /\ resp = NoResp
  /\ now = 0
  /\ access = << >>
  /\ emitted = EmptyBag
  /\ stamps = [ghost |-> [g \in DOMAIN profiles |->
                            [created_at |-> 0, is_soft_deleted |-> FALSE,
                             soft_deleted_at |-> Never]],
               board |-> [b \in DOMAIN boards |->
                            [created_at |-> 0, soft_deleted_at |-> Never]]]

\* the bodies of a note PATCH / PUT
NoteBodies ==
  {<<"PATCH", f>> : f \in {{}, {"position_x"}, {"position_x", "position_y"},
                           {"content"}, {"content", "position_x"}}}
    \cup {<<"PUT", NoteFields>>}

\* the requesters of the writes: nobody, account a or its ghost g1, the
\* unlinked ghost g3, each with or without a secret
AuthRequests == Requests({NoGhost, "g1", "g3"}, {NoUser, "a"}, SpeltTokens)

\* Writes on one board and one note.
AuthNext ==
  \/ \E g \in {"g1", "g3"}, pub \in BOOLEAN : CreateBoard(Anon(g), pub)
  \/ \E r \in Requests({"g1", "g3"}, {NoUser}, KnownTokens), b \in BoardIds :
       notes = << >> /\ CreateNote(r, b, "x", <<0, 0>>, <<0, 0>>)
  \/ \E r \in AuthRequests, b \in BoardIds :
       \/ \E pub \in BOOLEAN : BoardUpdate(r, b, pub)
       \/ BoardDestroy(r, b)
       \/ RevokeLink(r, b)
       \/ \E m \in {"POST", "DELETE"} : Invite(r, b, m, "b")
  \/ \E r \in AuthRequests, body \in NoteBodies :
       NoteUpdate(r, "n1", body[1], body[2], "y", <<100, 0>>)
  \/ \E r \in AuthRequests : NoteDelete(r, "n1")

AuthSpec == AuthInit /\ [][AuthNext]_vars

\* Reads on one board that can turn private, with one note on it that the
\* signed-out ghost g3 may have written or upvoted.
ReadNext ==
  \/ \E g \in {"g1", "g3"}, pub \in BOOLEAN : CreateBoard(Anon(g), pub)
  \/ \E g \in {"g1", "g3"}, b \in BoardIds :
       notes = << >> /\ CreateNote(Anon(g), b, "x", <<100, 0>>, <<0, 0>>)
  \/ \E g \in {"g1", "g3"} : ToggleUpvote(Anon(g), "n1")
  \/ \E r \in Requests({NoGhost}, {NoUser, "a"}, KnownTokens), b \in BoardIds :
       \/ \E pub \in BOOLEAN : BoardUpdate(r, b, pub)
       \/ \E m \in {"POST", "DELETE"} : Invite(r, b, m, "b")
  \/ \E r \in Requests({NoGhost, "g1", "g3"}, AnyUser, SpeltTokens), b \in BoardIds,
        v \in BoardViews \cup NoteViews : Read(r, v, b)

ReadSpec == AuthInit /\ [][ReadNext]_vars

\* the Ghost<->Account links: the profile rows that carry a user
Links == {<<g, profiles[g].user>> : g \in {h \in DOMAIN profiles : profiles[h].user # NoUser}}

\* the claimants: nobody, account a or account b, from a browser without a
\* ghost or with ghost g1 or g2, holding no secret, a secret the board has or
\* had, or the current one in upper case
ClaimRequests ==
  Requests({NoGhost, "g1", "g2"}, AnyUser,
           KnownTokens \cup {[val |-> TokenOf(b), form |-> "upper"] : b \in DOMAIN boards})

\* Two requests in flight at once on the board of the unlinked ghost g2:
\* claims by account a (ghost g1) and by account b (no ghost yet), from any
\* browser and with any spelling of a secret, next to revocations, board
\* updates and writes on one note.
ClaimNext ==
  \/ \E s \in Slots, r \in ClaimRequests, b \in BoardIds : ClaimCheck(s, r, b)
  \/ \E s \in Slots : ClaimSteps(s)
  \/ \E r \in Requests({NoGhost}, {NoUser, "a"}, KnownTokens), b \in BoardIds :
       \/ RevokeLink(r, b)
       \/ \E pub \in BOOLEAN : BoardUpdate(r, b, pub)

ClaimSpec == MigrateInit /\ [][ClaimNext]_vars

\* the writers: nobody, account a or account b, from the browser of ghost g1
\* or of ghost g2, with or without the board's secret
WriteRequests ==
  Requests({"g1", "g2"}, AnyUser,
           {NoToken} \cup {[val |-> TokenOf(b), form |-> "canon"] : b \in DOMAIN boards})

\* One request at a time on the board of the unlinked ghost g2 and one note
\* of g2 on it: the writing detail routes of boards and notes, and claims.
WriteNext ==
  \/ \E r \in WriteRequests, b \in BoardIds : ClaimCheck("s1", r, b)
  \/ ClaimSteps("s1")
  \/ \E b \in BoardIds :
       Quiet /\ notes = << >> /\ CreateNote(Anon("g2"), b, "x", <<0, 0>>, <<0, 0>>)
  \/ \E r \in WriteRequests, b \in BoardIds :
       \/ \E pub \in BOOLEAN : Quiet /\ BoardUpdate(r, b, pub)
       \/ Quiet /\ BoardDestroy(r, b)
       \/ Quiet /\ RevokeLink(r, b)
       \/ \E m \in {"POST", "DELETE"} : Quiet /\ Invite(r, b, m, "b")
  \/ \E r \in WriteRequests, body \in {<<"PATCH", {"position_x"}>>, <<"PUT", NoteFields>>} :
       Quiet /\ NoteUpdate(r, "n1", body[1], body[2], "y", <<100, 0>>)
  \/ \E r \in WriteRequests : Quiet /\ NoteDelete(r, "n1")

WriteSpec == MigrateInit /\ [][WriteNext]_vars

\* the people of the retention runs: the browsers of ghost g1 and of ghost
\* g2 signed out, and account a (from g1's) and account b (from g2's) signed
\* in and holding the board's secret
RetainRequests ==
  {Anon("g1"), Anon("g2")}
    \cup {Req(p[1], p[2], [val |-> TokenOf(b), form |-> "canon"]) :
            p \in {<<"g1", "a">>, <<"g2", "b">>}, b \in DOMAIN boards}

\* One request or one run of the command at a time while weeks and months
\* pass: the board made, claimed and deleted by its people, a note of g1 and
\* an upvote of g2 on it.
RetainNext ==
  \/ \E d \in {SevenDays, SevenDays + 1, ThirtyDays} : Quiet /\ Tick(d)
  \/ Quiet /\ Sweep
  \/ \E r \in RetainRequests : Quiet /\ CreateBoard(r, TRUE)
  \/ \E r \in RetainRequests, b \in BoardIds : Quiet /\ BoardDestroy(r, b)
  \/ \E r \in RetainRequests, b \in BoardIds : ClaimCheck("s1", r, b)
  \/ ClaimSteps("s1")
  \/ \E b \in BoardIds :
       Quiet /\ notes = << >> /\ CreateNote(Anon("g1"), b, "x", <<0, 0>>, <<0, 0>>)
  \/ Quiet /\ ToggleUpvote(Anon("g2"), "n1")

RetainSpec == MigrateInit /\ [][RetainNext]_vars

\* The public board b1 of ghost g2 with one note of g2 at (100, 100).
VoteInit ==
  /\ users = {"a"}
  /\ profiles = ("g1" :> [user |-> "a"]) @@ ("g2" :> [user |-> NoUser])
  /\ vcodes = << >>
  /\ boards = "b1" :> [creator_ghost |-> "g2", is_public |-> TRUE,
                       secret_admin_token |-> 0, is_soft_deleted |-> FALSE]
  /\ notes = "n1" :> [board |-> "b1", creator_ghost |-> "g2", content |-> "x",
                      position_x |-> <<100, 0>>, position_y |-> <<100, 0>>]
  /\ upvotes = {}
  /\ invites = {}
  /\ inflight = [s \in Slots |-> Idle]
  /\ accepted = [i \in 1..MaxCodes |-> 0]
  /\ resp = NoResp
  /\ now = 0
  /\ access = << >>
  /\ emitted = EmptyBag
  /\ stamps = [ghost |-> [g \in DOMAIN profiles |->
                            [created_at |-> 0, is_soft_deleted |-> FALSE,
                             soft_deleted_at |-> Never]],
               board |-> [b \in DOMAIN boards |->
                            [created_at |-> 0, soft_deleted_at |-> Never]]]

\* Two toggles in flight at once, every statement of the handler a step.
VoteNext ==
  \/ \E s \in Slots, g \in AnyGhost, n \in NoteIds : ToggleGetObject(s, Anon(g), n)
  \/ \E s \in Slots : ToggleSteps(s)

VoteSpec == VoteInit /\ [][VoteNext]_vars

\* Account a signed in with the empty ghost g1, account b signed in from a
\* browser whose ghost was in conflict: b has no ghost.  No board yet.
EventInit ==
  /\ users = {"a", "b"}
  /\ profiles = "g1" :> [user |-> "a"]
  /\ vcodes = << [email |-> "a", code |-> "c1", is_used |-> TRUE, expired |-> FALSE],
                 [email |-> "b", code |-> "c1", is_used |-> TRUE, expired |-> FALSE] >>
  /\ boards = << >>
  /\ notes = << >>
  /\ upvotes = {}
  /\ invites = {}
  /\ inflight = [s \in Slots |-> Idle]
  /\ accepted = [i \in 1..MaxCodes |-> IF i <= Len(vcodes) THEN 1 ELSE 0]
  /\ resp = NoResp
  /\ now = 0
  /\ access = << >>
  /\ emitted = EmptyBag
  /\ stamps = [ghost |-> [g \in DOMAIN profiles |->
                            [created_at |-> 0, is_soft_deleted |-> FALSE,
                             soft_deleted_at |-> Never]],
               board |-> << >>]

\* Two first requests in flight at once, each with an X-Ghost-ID header;
\* ghost g1 is known and linked to account a.
BootNext ==
  \/ \E s \in Slots, g \in GhostIds : BootGet(s, g)
  \/ \E s \in Slots : BootSteps(s)

BootSpec == EventInit /\ [][BootNext]_vars

\* whoever holds the board's secret, without ghost or account
EventAdmins == {Req(NoGhost, NoUser, [val |-> TokenOf(b), form |-> "canon"]) : b \in DOMAIN boards}

\* the two accounts claiming with the secret, a from the browser of its ghost
\* g1 and b from the browser of the board's ghost g2
EventClaimants ==
  {Req(p[1], p[2], [val |-> TokenOf(b), form |-> "canon"]) :
     p \in {<<"g1", "a">>, <<"g2", "b">>}, b \in DOMAIN boards}

\* One request at a time: the board that ghost g2 makes, written, claimed
\* and soft-deleted, one note of g2 on it, upvotes of g1 and g3, and the
\* migration of g2's data.
EventNext ==
  \/ Quiet /\ CreateBoard(Anon("g2"), TRUE)
  \/ \E r \in EventAdmins, b \in BoardIds :
       \/ \E pub \in BOOLEAN : Quiet /\ BoardUpdate(r, b, pub)
       \/ Quiet /\ BoardDestroy(r, b)
       \/ Quiet /\ RevokeLink(r, b)
       \/ \E m \in {"POST", "DELETE"} : Quiet /\ Invite(r, b, m, "b")
  \/ \E b \in BoardIds :
       Quiet /\ notes = << >> /\ CreateNote(Anon("g2"), b, "x", <<100, 0>>, <<100, 0>>)
  \/ Quiet /\ NoteUpdate(Anon("g2"), "n1", "PATCH", {"content"}, "y", <<0, 0>>)
  \/ Quiet /\ NoteDelete(Anon("g2"), "n1")
  \/ \E g \in {"g1", "g3"} : Quiet /\ ToggleUpvote(Anon(g), "n1")
  \/ \E r \in EventClaimants, b \in BoardIds : ClaimCheck("s1", r, b)
  \/ ClaimSteps("s1")
  \/ \E e \in Emails : MigrateResolve("s1", e, "g2")
  \/ MigrateSteps("s1")

EventSpec == EventInit /\ [][EventNext]_vars

\* One request at a time: the board that ghost g2 makes, access requests of
\* g1 and g3 with or without an email, the admin's decisions and invites.
AccessNext ==
  \/ \E pub \in BOOLEAN : Quiet /\ CreateBoard(Anon("g2"), pub)
  \/ \E r \in EventAdmins, b \in BoardIds :
       \/ Quiet /\ BoardDestroy(r, b)
       \/ \E m \in {"POST", "DELETE"} : Quiet /\ Invite(r, b, m, "b")
       \/ \E i \in 1..2, st \in {"APPROVED", "REJECTED", "PENDING"} :
            Quiet /\ AccessRequests(r, b, i, st)
  \/ \E g \in {NoGhost, "g1", "g3"}, b \in BoardIds, email \in {NoEmail, "b"} :
       Quiet /\ RequestAccess(Anon(g), b, email)

AccessSpec == EventInit /\ [][AccessNext]_vars

\* ------------------------------------------------------------------- claims
\* C1: in every reachable state, whatever verifications, migrations, claims
\* and sends have run or are running side by side, no account is referenced
\* by two ghosts (a ghost row holds one user at most by construction).
C1_LinkOneToOne ==
  \A g \in DOMAIN profiles : \A h \in DOMAIN profiles :
    (g # h /\ profiles[g].user # NoUser) => profiles[g].user # profiles[h].user

\* a verification lost the race for its account: its link write was refused
\* while another ghost carries the account
C1_RefusedSecondLink ==
  /\ resp.op = "verify"
  /\ resp.status = 500
  /\ \E g \in DOMAIN profiles : g # resp.ghost /\ profiles[g].user = resp.email

\* C2: no verification and no migration changes the account of a ghost that
\* is already linked to another account.
C2_LinkedGhostKeepsAccount ==
  [][resp'.op \in {"verify", "migrate"} =>
       \A g \in DOMAIN profiles :
         profiles[g].user # NoUser => profiles'[g].user = profiles[g].user]_vars

\* C3: a verification with a valid code for an account that has ghost G1,
\* presenting another ghost G2 that owns a board or note, answers 200 with
\* has_conflict, writes no link, and G1 stays the account's ghost.
C3_ConflictKeepsFirstGhost ==
  (/\ resp.op = "verify"
   /\ resp.status # 400
   /\ resp.had # NoGhost
   /\ resp.had # resp.ghost
   /\ resp.has_data)
  => /\ resp.status = 200
     /\ resp.has_conflict
     /\ resp.linked = NoGhost
     /\ GhostProfile(resp.email) = resp.had
     /\ profiles[resp.ghost].user # resp.email

\* such a verification was answered with a conflict
C3_ConflictAnswered ==
  /\ resp.op = "verify"
  /\ resp.status = 200
  /\ resp.had # NoGhost
  /\ resp.had # resp.ghost
  /\ resp.has_data
  /\ resp.has_conflict

\* C4: while a migration is between two of its statements, and after it has
\* failed, the boards, notes and upvotes the source ghost owned when it began
\* are either all still the source's or all the target's.
C4_MigrationNeverMixed ==
  /\ \A s \in Slots :
       inflight[s].pc \in {"migrate_boards", "migrate_notes",
                           "migrate_upvotes", "migrate_link"}
       => LET r == inflight[s]
          IN \/ /\ \A b \in r.boards0 : boards[b].creator_ghost = r.source
                /\ \A n \in r.notes0 : notes[n].creator_ghost = r.source
                /\ \A n \in r.upvotes0 : <<n, r.source>> \in upvotes
             \/ /\ \A b \in r.boards0 : boards[b].creator_ghost = r.target
                /\ \A n \in r.notes0 : notes[n].creator_ghost = r.target
                /\ \A n \in r.upvotes0 : <<n, r.target>> \in upvotes
  /\ (resp.op = "migrate" /\ resp.status = 500)
       => \/ /\ \A b \in resp.boards0 : boards[b].creator_ghost = resp.source
             /\ \A n \in resp.notes0 : notes[n].creator_ghost = resp.source
             /\ \A n \in resp.upvotes0 : <<n, resp.source>> \in upvotes
          \/ /\ \A b \in resp.boards0 : boards[b].creator_ghost = resp.target
             /\ \A n \in resp.notes0 : notes[n].creator_ghost = resp.target
             /\ \A n \in resp.upvotes0 : <<n, resp.target>> \in upvotes

\* C5: a migration answered 200 took the account's ghost as target, or the
\* source when the account had none; the target is the account's ghost, and
\* when source and target differ, nothing is the source's any more and every
\* board, note and upvote the source had is the target's.
C5_MigrationMovesAll ==
  (resp.op = "migrate" /\ resp.status = 200)
  => /\ resp.target = (IF resp.had # NoGhost THEN resp.had ELSE resp.source)
     /\ profiles[resp.target].user = resp.user
     /\ resp.source # resp.target =>
          /\ BoardsOf(resp.source) = {}
          /\ NotesOf(resp.source) = {}
          /\ UpvotesOf(resp.source) = {}
          /\ resp.boards0 \subseteq BoardsOf(resp.target)
          /\ resp.notes0 \subseteq NotesOf(resp.target)
          /\ resp.upvotes0 \subseteq UpvotesOf(resp.target)

\* a migration to another ghost moved a board, a note and an upvote
C5_MovedBoardNoteUpvote ==
  /\ resp.op = "migrate"
  /\ resp.status = 200
  /\ resp.source # resp.target
  /\ resp.boards0 # {}
  /\ resp.notes0 # {}
  /\ resp.upvotes0 # {}

\* C6: no verification code row is accepted by more than one verification.
C6_CodeAcceptedOnce == \A i \in 1..MaxCodes : accepted[i] <= 1

\* C7 as stated: a board admin who is not the note's author gets a PATCH of
\* any subset of {position_x, position_y} accepted and every other note
\* write answered 403 with the note left as it was.
C7_AdminRepositionOnly ==
  [][(resp'.op = "note_write" /\ resp'.admin /\ ~resp'.author)
       => IF resp'.method = "PATCH" /\ resp'.kind \in {"empty", "position"}
          THEN resp'.status = 200
          ELSE resp'.status = 403 /\ notes' = notes]_vars

\* C7 amended: on a board that is not soft-deleted, a board admin who is not
\* the note's author gets a PATCH of a non-empty subset of {position_x,
\* position_y} accepted and every other note write answered 403 with the
\* note left as it was.
C7_AdminRepositionOnlyLive ==
  [][(resp'.op = "note_write" /\ resp'.admin /\ ~resp'.author /\ ~resp'.deleted)
       => IF resp'.method = "PATCH" /\ resp'.kind = "position"
          THEN resp'.status = 200
          ELSE resp'.status = 403 /\ notes' = notes]_vars

\* an admin moved somebody else's note
C7_AdminMovedNote ==
  /\ resp.op = "note_write"
  /\ resp.admin
  /\ ~resp.author
  /\ ~resp.deleted
  /\ resp.method = "PATCH"
  /\ resp.kind = "position"
  /\ resp.status = 200
  /\ \E n \in DOMAIN notes : notes[n].position_x = <<100, 0>>

C9_AdminWritesBoard ==
  (resp.op = "board_write" /\ resp.admin) => resp.status \in {200, 201, 204}

\* C10: every board a read returns, and the board of every note a read
\* returns, is public or one the requester may view as creator ghost, owning
\* account, invited account or holder of the current secret.
C10_PrivateStaysPrivate ==
  resp.op = "read"
  => /\ \A b \in resp.boards_out : boards[b].is_public \/ b \in resp.may_view
     /\ \A n \in resp.notes_out :
          boards[notes[n].board].is_public \/ notes[n].board \in resp.may_view

C12_CreatorGhostClaims ==
  (/\ resp.op = "claim"
   /\ resp.read.req.user # NoUser
   /\ resp.read.ghost_match
   /\ resp.read.owner = NoUser
   /\ resp.read.req.token = NoToken)
  => /\ resp.status = 200
     /\ OwnerUser(resp.read.board) = resp.read.req.user

\* C13: a claim whose request ghost is not the board's creator and whose
\* header is not the board's secret is answered 403 or 404 and changes no
\* board's creator ghost and no link; and every step that changes a board's
\* creator ghost or a link belongs to a claim whose ghost or secret matched.
C13_ClaimNeedsGhostOrSecret ==
  [][/\ (resp'.op = "claim" /\ ~resp'.read.ghost_match /\ ~resp'.read.token_match)
          => /\ resp'.status \in {403, 404}
             /\ \A b \in DOMAIN boards : boards'[b].creator_ghost = boards[b].creator_ghost
             /\ Links' = Links
     /\ ((\E b \in DOMAIN boards : boards'[b].creator_ghost # boards[b].creator_ghost)
           \/ Links' # Links)
          => \E s \in Slots :
               /\ inflight[s].pc \in {"claim_link", "claim_transfer"}
               /\ inflight'[s] # inflight[s]
               /\ (inflight[s].read.ghost_match \/ inflight[s].read.token_match)]_vars

\* a claim by secret alone, from another browser, moved the board
C13_ClaimedBySecret ==
  /\ resp.op = "claim"
  /\ resp.status = 200
  /\ resp.read.token_match
  /\ ~resp.read.ghost_match
  /\ boards[resp.read.board].creator_ghost # resp.read.obj.creator_ghost

\* C14: a claim answered while the board's creator ghost is linked to another
\* account is rejected and leaves the board's creator ghost and every link as
\* they were; a claim by the owning account, from the creator ghost or with
\* the secret, is answered 200 and changes neither.
C14_ClaimedBoardStays ==
  [][resp'.op = "claim" =>
       LET b == resp'.read.board
           u == resp'.read.req.user
       IN /\ OwnerUser(b) \notin {NoUser, u}
               => /\ resp'.status \notin {200, 201, 204}
                  /\ boards'[b].creator_ghost = boards[b].creator_ghost
                  /\ Links' = Links
          /\ (u # NoUser /\ OwnerUser(b) = u
                /\ (resp'.read.ghost_match \/ resp'.read.token_match))
               => /\ resp'.status = 200
                  /\ boards' = boards
                  /\ Links' = Links]_vars

\* C15: after a claim answered 200 for account A the board's creator ghost is
\* linked to A and is the only ghost linked to A; it is the ghost A had when
\* the claim began if A had one, and the claim created a ghost only if A had
\* none.
C15_ClaimTargetsOwnGhost ==
  (resp.op = "claim" /\ resp.status = 200)
  => LET u == resp.read.req.user
         c == boards[resp.read.board].creator_ghost
     IN /\ u # NoUser
        /\ profiles[c].user = u
        /\ \A g \in DOMAIN profiles : profiles[g].user = u => g = c
        /\ resp.read.had # NoGhost => c = resp.read.had
        /\ resp.made => resp.read.had = NoGhost

\* C16: a revocation answered 200 was made with admin rights and gave the
\* board a secret it never had; and a secret once replaced (the secrets of a
\* board are numbered in the order of their issue) is never the board's
\* secret again.
C16_RevokedSecretStaysDead ==
  [][/\ (resp'.op = "board_write" /\ resp'.action = "revoke" /\ resp'.status = 200)
          => /\ resp'.admin
             /\ \E b \in DOMAIN boards :
                  boards'[b].secret_admin_token > boards[b].secret_admin_token
     /\ \A b \in DOMAIN boards :
          boards'[b].secret_admin_token >= boards[b].secret_admin_token]_vars

\* C17: no sweep removes a Board whose creator Ghost is linked to an Account,
\* neither by the Board stage nor by deleting the creator Ghost; stated here
\* for the Boards that nobody has soft-deleted.
C17_ClaimedBoardSurvives ==
  [][resp'.op = "purge" =>
       \A b \in DOMAIN boards :
         /\ profiles[boards[b].creator_ghost].user # NoUser
         /\ ~boards[b].is_soft_deleted
         => b \in DOMAIN boards']_vars

\* C18: a sweep soft-deletes a Board only if it was created more than 30 days
\* before and its creator Ghost has no Account at sweep time; a claimed Board
\* is never soft-deleted by a sweep.
C18_SoftDeletesOldUnclaimed ==
  [][resp'.op = "purge" =>
       \A b \in DOMAIN boards \cap DOMAIN boards' :
         ~boards[b].is_soft_deleted /\ boards'[b].is_soft_deleted =>
           /\ now - stamps.board[b].created_at > ThirtyDays
           /\ profiles[boards[b].creator_ghost].user = NoUser
           /\ stamps'.board[b].soft_deleted_at = now]_vars

\* a sweep has just soft-deleted the board of an unlinked ghost
C18_BoardSoftDeleted ==
  /\ resp.op = "purge"
  /\ resp.board_soft_count > 0
  /\ \E b \in DOMAIN boards :
       /\ boards[b].is_soft_deleted
       /\ stamps.board[b].soft_deleted_at = now
       /\ profiles[boards[b].creator_ghost].user = NoUser

\* C19: a request never changes a Ghost's creation time; a sweep soft-deletes
\* every Ghost created more than 30 days before it, removes a Ghost only if it
\* was soft-deleted more than 7 days before it, and removes every such Ghost.
C19_GhostAgeOnly ==
  [][/\ \A g \in DOMAIN profiles \cap DOMAIN profiles' :
          stamps'.ghost[g].created_at = stamps.ghost[g].created_at
     /\ resp'.op = "purge" =>
          \A g \in DOMAIN profiles :
            LET row == stamps.ghost[g]
                due == row.is_soft_deleted /\ now - row.soft_deleted_at > SevenDays
            IN /\ now - row.created_at > ThirtyDays =>
                    g \notin DOMAIN profiles' \/ stamps'.ghost[g].is_soft_deleted
               /\ g \notin DOMAIN profiles' <=> due]_vars

\* a sweep has removed the ghosts that an earlier one had soft-deleted
C19_GhostHardDeleted ==
  /\ resp.op = "purge"
  /\ resp.hard_count > 0
  /\ resp.soft_count = 0

\* the sweep has nothing left to do at the current time
Swept == Purge(Store, now) = Store

\* C20: after a sweep a second sweep at the same time changes nothing, and a
\* sweep keeps the soft-delete time of every row soft-deleted before it.
C20_SweepIdempotent ==
  /\ [](resp.op = "purge" => Swept)
  /\ [][resp'.op = "purge" =>
          /\ resp'.again => Store' = Store
          /\ \A g \in DOMAIN profiles \cap DOMAIN profiles' :
               stamps.ghost[g].is_soft_deleted =>
                 stamps'.ghost[g].soft_deleted_at = stamps.ghost[g].soft_deleted_at
          /\ \A b \in DOMAIN boards \cap DOMAIN boards' :
               boards[b].is_soft_deleted =>
                 stamps'.board[b].soft_deleted_at = stamps.board[b].soft_deleted_at]_vars

\* a sweep ran twice in a row on a store that holds a ghost and a board
\* soft-deleted at an earlier time
C20_SweptTwice ==
  /\ resp.op = "purge"
  /\ resp.again
  /\ \E g \in DOMAIN profiles :
       stamps.ghost[g].is_soft_deleted /\ stamps.ghost[g].soft_deleted_at < now
  /\ \E b \in DOMAIN boards :
       boards[b].is_soft_deleted /\ stamps.board[b].soft_deleted_at < now

\* the rows that hang on board b in the tables B, N, U, I, A
RowsOf(B, N, U, I, A, b) ==
  LET ns == {n \in DOMAIN N : N[n].board = b}
  IN << IF b \in DOMAIN B THEN {B[b]} ELSE {},
        [n \in ns |-> N[n]],
        {u \in U : u[1] \in ns},
        {i \in I : i[1] = b},
        SelectSeq(A, LAMBDA r : r.board = b) >>

\* C21: a step that changes a Board, Note, Upvote, Invite or AccessRequest
\* row sends exactly one message, to the group of the Board the row hangs on.
C21_OneEventPerMutation ==
  [][\A b \in BoardIds :
       RowsOf(boards', notes', upvotes', invites', access', b)
         # RowsOf(boards, notes, upvotes, invites, access, b)
       => /\ BagCardinality(emitted') = 1
          /\ \A e \in BagToSet(emitted') : e.group = b]_vars

\* the messages of the given type that the step just taken sent to group b
Sent(b, type) ==
  LET E == {e \in BagToSet(emitted) : e.group = b /\ e.type = type}
  IN IF E = {} THEN 0 ELSE BagCardinality([e \in E |-> emitted[e]])

\* C22: a step in which a Board becomes soft-deleted sends BOARD_DELETED for
\* it and no BOARD_UPDATED; BOARD_DELETED is only ever sent for a Board that
\* is soft-deleted.
C22_SoftDeleteIsBoardDeleted ==
  [][/\ \A b \in DOMAIN boards \cap DOMAIN boards' :
          ~boards[b].is_soft_deleted /\ boards'[b].is_soft_deleted =>
            /\ Sent(b, "BOARD_UPDATED")' = 0
            /\ Sent(b, "BOARD_DELETED")' = 1
     /\ \A b \in BoardIds :
          Sent(b, "BOARD_DELETED")' > 0 =>
            b \in DOMAIN boards' /\ boards'[b].is_soft_deleted]_vars

\* C23: a step that inserts an Upvote row multiplies both coordinates of its
\* Note by 0.95 once, changes nothing else of the Note, and sends exactly one
\* NOTE_UPDATED that carries the new position.
C23_GravityOncePerUpvote ==
  [][\A u \in upvotes' \ upvotes :
       /\ notes' = [notes EXCEPT ![u[1]].position_x = Gravity(@),
                                 ![u[1]].position_y = Gravity(@)]
       /\ emitted' = One(NoteSaved(u[1], notes'[u[1]], FALSE))]_vars

C25_ToggleNeverFails ==
  [][resp'.op = "toggle" /\ resp'.status \notin {400, 403, 404} =>
       /\ resp'.status = 200
       /\ resp'.action \in {"upvoted", "unvoted"}
       /\ resp'.action = "upvoted" =>
            /\ <<resp'.note, resp'.ghost>> \notin upvotes
            /\ <<resp'.note, resp'.ghost>> \in upvotes'
       /\ resp'.action = "unvoted" => <<resp'.note, resp'.ghost>> \notin upvotes']_vars

\* C26: a request that carries a ghost identifier ends with that Ghost as
\* its context and the Ghost's record present; a record that was there is
\* left as it was.
C26_GhostGetOrCreate ==
  /\ [](resp.op = "boot" => resp.context = resp.ghost /\ resp.ghost \in DOMAIN profiles)
  /\ [][\A g \in DOMAIN profiles : g \in DOMAIN profiles' /\ profiles'[g] = profiles[g]]_vars

\* two first requests with the same identifier overlapped: the second one
\* lost the INSERT and still got its Ghost
C26_LostInsertGotGhost ==
  /\ resp.op = "boot"
  /\ resp.via = "reget"
  /\ resp.context = resp.ghost
  /\ profiles[resp.ghost] = [user |-> NoUser]

\* C27: a verification with a valid code for an account that has ghost G1,
\* presenting another ghost G2 that owns no board and no note, answers 200
\* without a conflict, reports G1 as the account's ghost, leaves G1 linked
\* to the account and does not link G2 to it.
C27_EmptyGhostYieldsToFirst ==
  (/\ resp.op = "verify"
   /\ resp.status # 400
   /\ resp.had # NoGhost
   /\ resp.had # resp.ghost
   /\ ~resp.has_data)
  => /\ resp.status = 200
     /\ ~resp.has_conflict
     /\ resp.ghost_id = resp.had
     /\ profiles[resp.had].user = resp.email
     /\ profiles[resp.ghost].user # resp.email

\* such a verification was answered and named the first ghost
C27_FirstGhostReported ==
  /\ resp.op = "verify"
  /\ resp.status = 200
  /\ resp.had # NoGhost
  /\ resp.had # resp.ghost
  /\ ~resp.has_data
  /\ resp.ghost_id = resp.had

\* C28: a verification for an account without a ghost, presenting a ghost
\* that owns a board or note and is linked to nobody, answers with a conflict
\* and leaves the ghost unlinked; every verification answered without a
\* conflict leaves the account linked to exactly one ghost.
C28_ConflictOrLinked ==
  [][resp'.op = "verify" /\ resp'.status # 400 =>
       /\ (/\ resp'.had = NoGhost
           /\ resp'.has_data
           /\ profiles[resp'.ghost].user = NoUser)
          => /\ resp'.status = 200
             /\ resp'.has_conflict
             /\ profiles'[resp'.ghost].user = NoUser
       /\ ~resp'.has_conflict =>
            /\ resp'.status = 200
            /\ Cardinality({g \in DOMAIN profiles' : profiles'[g].user = resp'.email}) = 1]_vars

\* a first sign-in from a ghost with data was answered with a conflict
C28_FirstSignInConflicted ==
  /\ resp.op = "verify"
  /\ resp.status = 200
  /\ resp.had = NoGhost
  /\ resp.has_data
  /\ resp.has_conflict
  /\ profiles[resp.ghost].user = NoUser
  /\ GhostProfile(resp.email) = NoGhost

\* C29: a verification goes past the code check only with a code row that
\* exists, is unused and unexpired, and is then answered 200 with tokens,
\* on a conflict together with exactly the boards of the presented ghost; one
\* that is refused gets no tokens and leaves accounts and ghosts as they were.
C29_TokensIffValidCode ==
  /\ [](resp.op = "verify" /\ resp.status # 400 =>
          /\ resp.status = 200
          /\ resp.tokens
          /\ resp.anonymous_boards =
               (IF resp.has_conflict
                THEN {b \in DOMAIN boards : boards[b].creator_ghost = resp.ghost}
                ELSE {}))
  /\ [][(\A s \in Slots :
            inflight[s].pc = "idle" /\ inflight'[s].pc = "verify_resolve" =>
              LET row == inflight'[s].row
              IN row \in 1..Len(vcodes) /\ ~vcodes[row].is_used /\ ~vcodes[row].expired)
       /\ (resp'.op = "verify" /\ resp'.status = 400 =>
            ~resp'.tokens /\ users' = users /\ profiles' = profiles)]_vars

\* C30: after an AccessRequest is set to APPROVED the requester is on the
\* Invite list of the request's Board.
C30_ApprovedIsInvited ==
  resp.op = "access_requests" /\ resp.status = 200 /\ resp.new_status = "APPROVED"
    => <<resp.board, resp.was.email>> \in invites

\* C31: the ghost that created a Board gets its update and its soft-delete
\* of that Board accepted, with or without an account or the admin secret.
C31_CreatorGhostWritesBoard ==
  (resp.op = "board_write" /\ resp.creator /\ resp.action \in {"update", "destroy"})
    => resp.status \in {200, 204}

\* C32: a (Board, Ghost) pair has at most one AccessRequest, with a status
\* of PENDING, APPROVED or REJECTED; a request of a pair whose row is PENDING
\* or APPROVED is refused and changes nothing; a request of a pair whose row
\* is REJECTED puts that row back to PENDING; a row leaves PENDING only by
\* an accepted approve or reject of the board's admin.
C32_OneRequestPerGhost ==
  /\ [](\A i, j \in 1..Len(access) :
          /\ access[i].status \in {"PENDING", "APPROVED", "REJECTED"}
          /\ (access[i].board = access[j].board /\ access[i].ghost = access[j].ghost)
               => i = j)
  /\ [][(resp'.op = "request_access" /\ resp'.status \in {201, 400}
            /\ resp'.ghost # NoGhost =>
           LET mine == {i \in 1..Len(access) :
                          access[i].board = resp'.board /\ access[i].ghost = resp'.ghost}
           IN /\ (\E i \in mine : access[i].status \in {"PENDING", "APPROVED"})
                   => (resp'.status = 400 /\ access' = access)
              /\ (\E i \in mine : access[i].status = "REJECTED")
                   => (/\ resp'.status = 201
                       /\ Len(access') = Len(access)
                       /\ \A i \in mine : access'[i].status = "PENDING"))
       /\ (\A i \in 1..Len(access) :
             (access[i].status = "PENDING" /\ i <= Len(access')
                /\ access'[i].status # "PENDING")
             => (resp'.op = "access_requests" /\ resp'.status = 200))]_vars

\* C33: when no toggle is in flight, every Note has been pulled at least
\* once for each Upvote it holds: with N Upvotes made side by side its
\* position is the initial one scaled by 0.95 N times or more.
C33_NoGravityStepLost ==
  Quiet =>
    \A n \in DOMAIN notes :
      \A p \in {notes[n].position_x, notes[n].position_y} :
        p[1] = 0 \/ p[2] >= Cardinality({u \in upvotes : u[1] = n})

\* C34: no Upvote row is held by the ghost that authored its Note.
C34_NoSelfUpvote ==
  \A u \in upvotes : u[1] \in DOMAIN notes => notes[u[1]].creator_ghost # u[2]

\* C35: no step of a migration takes a Board, Note or Upvote away from a
\* ghost that is linked to an account other than the caller, or changes that
\* ghost's account.
C35_MigrationSparesOthersGhosts ==
  [][\A s \in Slots :
       inflight[s].pc \in {"migrate_boards", "migrate_notes",
                           "migrate_upvotes", "migrate_link"} =>
         \A g \in DOMAIN profiles :
           profiles[g].user \notin {NoUser, inflight[s].user} =>
             /\ profiles'[g].user = profiles[g].user
             /\ \A b \in DOMAIN boards :
                  boards[b].creator_ghost = g => boards'[b].creator_ghost = g
             /\ \A n \in DOMAIN notes :
                  notes[n].creator_ghost = g => notes'[n].creator_ghost = g
             /\ \A n \in NoteIds : <<n, g>> \in upvotes => <<n, g>> \in upvotes']_vars

DestroyNext ==
  \/ \E s \in Slots, r \in ClaimRequests, b \in BoardIds : ClaimCheck(s, r, b)
  \/ \E s \in Slots : ClaimSteps(s)
  \/ \E r \in Requests({NoGhost}, {NoUser, "a"}, KnownTokens), b \in BoardIds :
       BoardDestroy(r, b)

DestroySpec == MigrateInit /\ [][DestroyNext]_vars

\* C37: soft-deletion is one-way. A Board or a Ghost that has is_soft_deleted
\* = true keeps it in every later state in which the row is still in the
\* store: no step sets the flag back to false.
C37_SoftDeleteOneWay ==
  [][(\A b \in DOMAIN boards \cap DOMAIN boards' :
        boards[b].is_soft_deleted => boards'[b].is_soft_deleted)
     /\ (\A g \in DOMAIN stamps.ghost \cap DOMAIN stamps'.ghost :
           stamps.ghost[g].is_soft_deleted => stamps'.ghost[g].is_soft_deleted)]_vars

\* C38: no Note is created on a soft-deleted Board. Every step that adds a
\* Note row is a note creation answered 201 for a request with a Ghost, on a
\* Board that is not soft-deleted and is public, or was created by that Ghost,
\* or whose admin secret the request presented.
C38_NoNoteOnDeletedBoard ==
  [][\A n \in DOMAIN notes' \ DOMAIN notes :
       LET b == notes'[n].board
           g == notes'[n].creator_ghost
       IN /\ resp'.op = "note_create"
          /\ resp'.status = 201
          /\ g # NoGhost
          /\ b \in DOMAIN boards
          /\ ~boards[b].is_soft_deleted
          /\ (boards[b].is_public \/ boards[b].creator_ghost = g \/ resp'.by_secret)]_vars

====
